---- MODULE Spec2Model ----
(***************************************************************************)
(* AltHistoryAgent: the event-to-consequence pipeline (EventEngine), the   *)
(* ramification execution engine (RamificationExecutor) and the loop that  *)
(* sequences them (TimeEngine), as a state machine over the global_state   *)
(* document.                                                               *)
(*                                                                         *)
(* The document is a tree of tagged values [t |-> tag, v |-> payload]:     *)
(*   "null"  None            "bool"  True / False                           *)
(*   "num"   int or float, payload <<n, d>> = the rational n/d, d > 0       *)
(*   "str"   a string        "dict"  a function from keys to values         *)
(*   "list"  a sequence (Python index i is TLA+ index i + 1)                *)
(*   "path"  a dot-notation targetPath string, payload = its dot-separated  *)
(*           segments (what path.split('.') returns)                        *)
(*   "time"  an ISO date or datetime string that parses, payload = the day *)
(*           number it denotes                                              *)
(***************************************************************************)
EXTENDS Integers, Sequences, FiniteSets, TLC

VARIABLES
    global_state,        \* the State Document shared by TimeEngine, EventEngine and RamificationExecutor
    pending_events,      \* EventEngine.pending_events
    time_step,           \* EventEngine.time_step (day number)
    pc,                  \* position of the running command in TimeEngine / EventEngine / executor
    user_input,          \* the step input handed to run_simulation_step
    indices_to_process,  \* execute_pending_ramifications: indices still to visit in this call
    current_time,        \* execute_pending_ramifications: the parsed current_sim_time_str
    disk,                \* the persisted global_state.json
    next_id,             \* the supply of fresh uuid4 values
    auto_left,           \* run_auto_steps: steps of the for loop still to run
    tick_start,          \* the simulated day at which the running step began
    calls,               \* number of commands, steps and executor calls issued so far
    event_request        \* generate_event_from_prompt: what generate_json_object returned to the
                         \* latest command (ai_result, generated_event_obj), <<>> for other commands

vars == <<global_state, pending_events, time_step, pc, user_input,
          indices_to_process, current_time, disk, next_id, auto_left, tick_start, calls,
          event_request>>

\* what the executor's own steps leave alone
engineVars == <<pending_events, time_step, user_input, disk, next_id, auto_left, tick_start,
                event_request>>

----------------------------------------------------------------------------
(* Bounds of the model *)

MaxRams == 2
MaxCalls == 2
MaxTime == 2

----------------------------------------------------------------------------
(* JSON values *)

Null == [t |-> "null", v |-> 0]
Bool(b) == [t |-> "bool", v |-> b]
Str(s) == [t |-> "str", v |-> s]
Dict(f) == [t |-> "dict", v |-> f]
List(s) == [t |-> "list", v |-> s]
Path(segs) == [t |-> "path", v |-> segs]
Time(d) == [t |-> "time", v |-> d]
EmptyDict == Dict(<<>>)
EmptyList == List(<<>>)

Abs(n) == IF n < 0 THEN -n ELSE n

RECURSIVE GCD(_, _)
GCD(a, b) == IF b = 0 THEN a ELSE GCD(b, a % b)

\* the rational n/d in lowest terms with a positive denominator
Rat(n, d) ==
    LET g == GCD(Abs(n), Abs(d))
        s == IF d < 0 THEN -1 ELSE 1
    IN  [t |-> "num", v |-> <<(s * n) \div g, (s * d) \div g>>]

Num(n) == Rat(n, 1)

\* isinstance(x, (int, float)): bool is a subclass of int
IsNumeric(x) == x.t \in {"num", "bool"}

NumVal(x) == IF x.t = "bool" THEN (IF x.v THEN <<1, 1>> ELSE <<0, 1>>) ELSE x.v

PyAdd(a, b) == Rat(NumVal(a)[1] * NumVal(b)[2] + NumVal(b)[1] * NumVal(a)[2], NumVal(a)[2] * NumVal(b)[2])
PySub(a, b) == Rat(NumVal(a)[1] * NumVal(b)[2] - NumVal(b)[1] * NumVal(a)[2], NumVal(a)[2] * NumVal(b)[2])
PyMul(a, b) == Rat(NumVal(a)[1] * NumVal(b)[1], NumVal(a)[2] * NumVal(b)[2])
PyDiv(a, b) == Rat(NumVal(a)[1] * NumVal(b)[2], NumVal(a)[2] * NumVal(b)[1])

\* Python ==: numbers compare by value (True == 1), everything else by structure
PyEq(a, b) ==
    IF IsNumeric(a) /\ IsNumeric(b) THEN NumVal(a) = NumVal(b)
    ELSE IF a.t # b.t THEN FALSE
    ELSE a = b

\* the value is the string s
IsStr(x, s) == x.t = "str" /\ x.v = s

\* truthiness of a value (if x / if not x)
Truthy(x) ==
    CASE x.t = "null" -> FALSE
      [] x.t = "bool" -> x.v
      [] x.t = "num" -> x.v[1] # 0
      [] x.t = "str" -> x.v # ""
      [] x.t = "dict" -> DOMAIN x.v # {}
      [] x.t = "list" -> Len(x.v) > 0
      [] x.t = "path" -> x.v # <<"">>
      [] OTHER -> TRUE

HasKey(d, k) == d.t = "dict" /\ k \in DOMAIN d.v

\* d.get(k): None when the key is absent
DGet(d, k) == IF HasKey(d, k) THEN d.v[k] ELSE Null

\* d[k] = x on a dict, creating the key when absent
DictPut(d, k, x) ==
    Dict([j \in (DOMAIN d.v) \cup {k} |-> IF j = k THEN x ELSE d.v[j]])

\* str.isdigit() and int() on a path segment
DigitValue == ("0" :> 0) @@ ("1" :> 1) @@ ("2" :> 2) @@ ("3" :> 3) @@ ("4" :> 4) @@ ("5" :> 5)
IsDigit(key) == key \in DOMAIN DigitValue
ToInt(key) == DigitValue[key]

Front(s) == SubSeq(s, 1, Len(s) - 1)
Last(s) == s[Len(s)]

----------------------------------------------------------------------------
(* RamificationExecutor._get_nested_value *)

\* the walk over keys[:-1]: the container reached, or found = FALSE
RECURSIVE WalkTo(_, _)
WalkTo(current_level, keys) ==
    IF keys = <<>> THEN [found |-> TRUE, node |-> current_level]
    ELSE IF HasKey(current_level, Head(keys))
         THEN WalkTo(current_level.v[Head(keys)], Tail(keys))
    ELSE IF current_level.t = "list" /\ IsDigit(Head(keys))
         THEN IF ToInt(Head(keys)) < Len(current_level.v)
              THEN WalkTo(current_level.v[ToInt(Head(keys)) + 1], Tail(keys))
              ELSE [found |-> FALSE, node |-> Null]
    ELSE [found |-> FALSE, node |-> Null]

\* (value, parent) of the path; parent = None is hasParent = FALSE
get_nested_value(gs, keys) ==
    LET w == WalkTo(gs, Front(keys))
        last_key == Last(keys)
        none == [hasParent |-> FALSE, value |-> Null, parent |-> Null]
    IN  IF ~w.found THEN none
        ELSE IF HasKey(w.node, last_key)
             THEN [hasParent |-> TRUE, value |-> w.node.v[last_key], parent |-> w.node]
        ELSE IF w.node.t = "list" /\ IsDigit(last_key)
             THEN IF ToInt(last_key) < Len(w.node.v)
                  THEN [hasParent |-> TRUE, value |-> w.node.v[ToInt(last_key) + 1], parent |-> w.node]
                  ELSE none
        ELSE none

\* the document after the object reached by walking keys has been mutated into new
\* (the containers are shared by reference, so the change shows in the whole tree)
RECURSIVE Replace(_, _, _)
Replace(node, keys, new) ==
    IF keys = <<>> THEN new
    ELSE IF node.t = "dict"
         THEN Dict([node.v EXCEPT ![Head(keys)] = Replace(@, Tail(keys), new)])
         ELSE List([node.v EXCEPT ![ToInt(Head(keys)) + 1] = Replace(@, Tail(keys), new)])

----------------------------------------------------------------------------
(* RamificationExecutor._set_nested_value *)

\* mutant: a missing key always gets a dict
NewContainer_AlwaysDict(next_key) == EmptyDict

\* lines 82-85: the container made for a missing key, chosen by the segment after it
NewContainer(next_key) == IF ~IsDigit(next_key) THEN EmptyDict ELSE EmptyList

\* [ok, node]: the return value and the container current_level after the call
RECURSIVE SetWalk(_, _, _)
SetWalk(current_level, keys, value) ==
    IF Len(keys) = 1
    THEN \* set the final value
         IF current_level.t = "dict"
         THEN [ok |-> TRUE, node |-> DictPut(current_level, keys[1], value)]
         ELSE IF current_level.t = "list" /\ IsDigit(keys[1])
         THEN IF ToInt(keys[1]) < Len(current_level.v)
              THEN [ok |-> TRUE, node |-> List([current_level.v EXCEPT ![ToInt(keys[1]) + 1] = value])]
              ELSE IF ToInt(keys[1]) = Len(current_level.v)
              THEN [ok |-> TRUE, node |-> List(Append(current_level.v, value))]
              ELSE [ok |-> FALSE, node |-> current_level]
         ELSE [ok |-> FALSE, node |-> current_level]
    ELSE IF current_level.t = "dict"
         THEN LET key == keys[1]
                  made == IF key \in DOMAIN current_level.v THEN current_level
                          ELSE DictPut(current_level, key, NewContainer(keys[2]))
                  r == SetWalk(made.v[key], Tail(keys), value)
              IN  [ok |-> r.ok, node |-> DictPut(made, key, r.node)]
    ELSE IF current_level.t = "list" /\ IsDigit(keys[1])
         THEN IF ToInt(keys[1]) < Len(current_level.v)
              THEN LET r == SetWalk(current_level.v[ToInt(keys[1]) + 1], Tail(keys), value)
                   IN  [ok |-> r.ok,
                        node |-> List([current_level.v EXCEPT ![ToInt(keys[1]) + 1] = r.node])]
              ELSE [ok |-> FALSE, node |-> current_level]
    ELSE [ok |-> FALSE, node |-> current_level]

\* mutant: no intermediate container is created, a missing key makes the call fail
set_nested_value_NoCreate(gs, keys, value) ==
    IF WalkTo(gs, Front(keys)).found
    THEN [ok |-> SetWalk(gs, keys, value).ok, gs |-> SetWalk(gs, keys, value).node]
    ELSE [ok |-> FALSE, gs |-> gs]

\* [ok, gs]: success flag and the document as the call leaves it
set_nested_value(gs, keys, value) ==
    LET r == SetWalk(gs, keys, value)
    IN  [ok |-> r.ok, gs |-> r.node]

----------------------------------------------------------------------------
(* RamificationExecutor.execute_pending_ramifications: one Ramification *)

\* the failureReason texts (an f-string is kept up to its first placeholder)
MsgBadTime == "Invalid or missing executionTime format."
MsgMissing == "Missing targetPath or operation."
MsgSet == "Failed to set value at path"
MsgAdd == "Cannot add: type mismatch or invalid path"
MsgSubtract == "Cannot subtract: type mismatch or invalid path"
MsgMultiply == "Cannot multiply: type mismatch or invalid path"
MsgDivZero == "Cannot divide by zero."
MsgDivide == "Cannot divide: type mismatch or invalid path"
MsgRemoveIndex == "Index out of bounds for remove_item."
MsgRemoveNotFound == "Item not found for remove_item using value/identifier."
MsgRemoveNotList == "Cannot remove_item: target path is not a list or index."
MsgUpdateNotList == "Cannot update_item: target path does not point to a list."
MsgUpdateNoId == "update_item requires a valueIdentifier (e.g., {'id': 'value-to-match'})."
MsgUpdateNotFound == "Item not found for update_item using identifier"
MsgUnsupported == "Unsupported operation"
MsgInvalidPath == "Exception during execution: Invalid targetPath"
MsgTypeError == "Exception during execution: list indices must be integers or slices, not str"

Ok(gs) == [success |-> TRUE, error_msg |-> "Execution failed.", gs |-> gs]
Fail(gs, msg) == [success |-> FALSE, error_msg |-> msg, gs |-> gs]

\* parent[last_key] = x: a dict takes the string key, a list raises TypeError
AssignInParent(gs, keys, parent, x) ==
    IF parent.t = "dict"
    THEN Ok(Replace(gs, Front(keys), DictPut(parent, Last(keys), x)))
    ELSE Fail(gs, MsgTypeError)

apply_set(gs, keys, value) ==
    LET r == set_nested_value(gs, keys, value)
    IN  IF r.ok THEN Ok(r.gs) ELSE Fail(r.gs, MsgSet)

apply_add(gs, keys, got, value) ==
    IF IsNumeric(got.value) /\ IsNumeric(value)
    THEN AssignInParent(gs, keys, got.parent, PyAdd(got.value, value))
    ELSE IF got.value.t = "list"
    THEN AssignInParent(gs, keys, got.parent, List(Append(got.value.v, value)))
    ELSE Fail(gs, MsgAdd)

\* mutant: the operands of the subtraction are swapped
apply_subtract_Swapped(gs, keys, got, value) ==
    IF IsNumeric(got.value) /\ IsNumeric(value)
    THEN AssignInParent(gs, keys, got.parent, PySub(value, got.value))
    ELSE Fail(gs, MsgSubtract)

apply_subtract(gs, keys, got, value) ==
    IF IsNumeric(got.value) /\ IsNumeric(value)
    THEN AssignInParent(gs, keys, got.parent, PySub(got.value, value))
    ELSE Fail(gs, MsgSubtract)

apply_multiply(gs, keys, got, value) ==
    IF IsNumeric(got.value) /\ IsNumeric(value)
    THEN AssignInParent(gs, keys, got.parent, PyMul(got.value, value))
    ELSE Fail(gs, MsgMultiply)

\* mutant: no test for a zero divisor, the ZeroDivisionError is caught by the handler
apply_divide_Unchecked(gs, keys, got, value) ==
    IF IsNumeric(got.value) /\ IsNumeric(value)
    THEN IF PyEq(value, Num(0))
         THEN Fail(gs, "Exception during execution: division by zero")
         ELSE AssignInParent(gs, keys, got.parent, PyDiv(got.value, value))
    ELSE Fail(gs, MsgDivide)

apply_divide(gs, keys, got, value) ==
    IF IsNumeric(got.value) /\ IsNumeric(value) /\ ~PyEq(value, Num(0))
    THEN AssignInParent(gs, keys, got.parent, PyDiv(got.value, value))
    ELSE IF PyEq(value, Num(0)) THEN Fail(gs, MsgDivZero)
    ELSE Fail(gs, MsgDivide)

\* the match test of remove_item for one list item
ItemMatches(item, identifier, item_to_remove) ==
    IF Truthy(identifier)
    THEN IF identifier.t = "dict" /\ item.t = "dict"
         THEN LET id_key == CHOOSE k \in DOMAIN identifier.v : TRUE
              IN  PyEq(DGet(item, id_key), identifier.v[id_key])
         ELSE PyEq(item, identifier)
    ELSE PyEq(item, item_to_remove)

\* mutant: only the first matching item is left out
KeptItems_FirstOnly(items, identifier, item_to_remove) ==
    LET hits == {i \in 1..Len(items) : ItemMatches(items[i], identifier, item_to_remove)}
    IN  IF hits = {} THEN items
        ELSE LET i == CHOOSE h \in hits : \A j \in hits : h <= j
             IN  SubSeq(items, 1, i - 1) \o SubSeq(items, i + 1, Len(items))

\* new_list of remove_item: the items that do not match
KeptItems(items, identifier, item_to_remove) ==
    SelectSeq(items, LAMBDA item : ~ItemMatches(item, identifier, item_to_remove))

apply_remove_item(gs, keys, got, value, identifier) ==
    IF got.parent.t = "list" /\ IsDigit(Last(keys))
    THEN LET idx == ToInt(Last(keys))
         IN  IF idx < Len(got.parent.v)
             THEN Ok(Replace(gs, Front(keys),
                     List(SubSeq(got.parent.v, 1, idx) \o SubSeq(got.parent.v, idx + 2, Len(got.parent.v)))))
             ELSE Fail(gs, MsgRemoveIndex)
    ELSE IF got.value.t = "list"
    THEN LET new_list == KeptItems(got.value.v, identifier, value)
         IN  IF Len(new_list) < Len(got.value.v)
             THEN AssignInParent(gs, keys, got.parent, List(new_list))
             ELSE Fail(gs, MsgRemoveNotFound)
    ELSE Fail(gs, MsgRemoveNotList)

\* item.update(new_value)
DictUpdate(item, new_value) ==
    Dict([k \in (DOMAIN item.v) \cup (DOMAIN new_value.v) |->
            IF k \in DOMAIN new_value.v THEN new_value.v[k] ELSE item.v[k]])

\* mutant: every matching item is updated, not only the first
FirstHit_Any(hits) == hits

\* lines 249-259: the loop stops at the first matching item
FirstHit(hits) == {CHOOSE h \in hits : \A j \in hits : h <= j}

apply_update_item(gs, keys, got, value, identifier) ==
    IF got.value.t # "list" THEN Fail(gs, MsgUpdateNotList)
    ELSE IF ~Truthy(identifier) \/ identifier.t # "dict" THEN Fail(gs, MsgUpdateNoId)
    ELSE LET id_key == CHOOSE k \in DOMAIN identifier.v : TRUE
             items == got.value.v
             hits == {i \in 1..Len(items) :
                        items[i].t = "dict" /\ PyEq(DGet(items[i], id_key), identifier.v[id_key])}
         IN  IF hits = {} THEN Fail(gs, MsgUpdateNotFound)
             ELSE LET updated == FirstHit(hits)
                      item(i) == IF value.t = "dict" THEN DictUpdate(items[i], value) ELSE value
                  IN  Ok(Replace(gs, keys,
                                 List([i \in 1..Len(items) |-> IF i \in updated THEN item(i) ELSE items[i]])))

\* lines 162-269: resolve the path and apply the operation
apply_operation(gs, keys, operation, value, identifier) ==
    LET got == get_nested_value(gs, keys)
    IN  IF ~got.hasParent /\ operation # "set" THEN Fail(gs, MsgInvalidPath)
        ELSE CASE operation = "set" -> apply_set(gs, keys, value)
               [] operation = "add" -> apply_add(gs, keys, got, value)
               [] operation = "subtract" -> apply_subtract(gs, keys, got, value)
               [] operation = "multiply" -> apply_multiply(gs, keys, got, value)
               [] operation = "divide" -> apply_divide(gs, keys, got, value)
               [] operation = "remove_item" -> apply_remove_item(gs, keys, got, value, identifier)
               [] operation = "update_item" -> apply_update_item(gs, keys, got, value, identifier)
               [] OTHER -> Fail(gs, MsgUnsupported)

Ramifications(gs) == gs.v["ramifications"].v

PutRam(gs, index, ram) ==
    DictPut(gs, "ramifications", List([Ramifications(gs) EXCEPT ![index] = ram]))

MarkExecuted(gs, index) ==
    PutRam(gs, index, DictPut(Ramifications(gs)[index], "status", Str("executed")))

\* mutant: the status is set to failed and no failureReason is written
MarkFailed_NoReason(gs, index, msg) ==
    PutRam(gs, index, DictPut(Ramifications(gs)[index], "status", Str("failed")))

MarkFailed(gs, index, msg) ==
    PutRam(gs, index,
           DictPut(DictPut(Ramifications(gs)[index], "status", Str("failed")),
                   "failureReason", Str(msg)))

\* mutant: the status is not looked at
IsPending_IgnoresStatus(ram) == TRUE

IsPending(ram) == PyEq(DGet(ram, "status"), Str("pending"))

\* mutant: the executionTime is not compared with the current time
IsDue_Always(execution_time, now) == TRUE

\* mutant: only the Ramifications scheduled within the last step of 30 days are due
IsDue_WithinStep(execution_time, now) == execution_time <= now /\ execution_time >= now - 30

\* execution_time <= current_time
IsDue(execution_time, now) == execution_time <= now

\* the body of the for loop for one index (1-based here)
execute_one(gs, index, now) ==
    IF index > Len(Ramifications(gs)) THEN gs
    ELSE LET ram == Ramifications(gs)[index]
             target_path == DGet(ram, "targetPath")
             operation == DGet(ram, "operation")
         IN  IF ~IsPending(ram) THEN gs
             ELSE IF DGet(ram, "executionTime").t # "time" THEN MarkFailed(gs, index, MsgBadTime)
             ELSE IF ~IsDue(DGet(ram, "executionTime").v, now) THEN gs
             ELSE IF ~Truthy(target_path) \/ ~Truthy(operation) THEN MarkFailed(gs, index, MsgMissing)
             ELSE LET r == apply_operation(gs, target_path.v, operation.v,
                                           DGet(ram, "value"), DGet(ram, "valueIdentifier"))
                  IN  IF r.success THEN MarkExecuted(r.gs, index)
                      ELSE MarkFailed(r.gs, index, r.error_msg)

\* mutant: a failed Ramification ends the loop
RemainingIndices_StopOnFailure(gs, indices) ==
    IF IsStr(DGet(Ramifications(gs)[Head(indices)], "status"), "failed") THEN <<>> ELSE Tail(indices)

\* line 135: the indices the for loop still has to visit once the visit of Head(indices)
\* has left the document as gs (every exit of the loop body continues with the next index)
RemainingIndices(gs, indices) == Tail(indices)

\* mutant: the pending Ramifications are visited from the last to the first
PendingIndices_Reversed(gs) ==
    LET rams == Ramifications(gs)
        F[i \in 0..Len(rams)] ==
            IF i = 0 THEN <<>>
            ELSE IF IsPending(rams[i]) THEN <<i>> \o F[i - 1] ELSE F[i - 1]
    IN  F[Len(rams)]

\* indices_to_process: the indices of the Ramifications that are pending when the call starts
PendingIndices(gs) ==
    LET rams == Ramifications(gs)
        F[i \in 0..Len(rams)] ==
            IF i = 0 THEN <<>>
            ELSE IF IsPending(rams[i]) THEN Append(F[i - 1], i) ELSE F[i - 1]
    IN  F[Len(rams)]

----------------------------------------------------------------------------
(* The documents and Ramifications the model starts from *)

STAB == <<"nations", "USA", "internalAffairs", "stability">>
NEWFLAG == <<"nations", "USA", "internalAffairs", "newFlag">>
NEWSEC == <<"nations", "USA", "newSection", "flag">>
SCORES == <<"nations", "USA", "scores">>
SCORE0 == <<"nations", "USA", "scores", "0">>
ITEMS == <<"nations", "USA", "items">>
NEWLIST0 == <<"nations", "USA", "newList", "0">>
NEWLIST1 == <<"nations", "USA", "newList", "1">>
NEWLIST0X == <<"nations", "USA", "newList", "0", "x">>
BADPATH == <<"nations", "USSR", "internalAffairs", "stability">>
EVENTTYPE0 == <<"globalEvents", "0", "eventType">>

Item(id) == Dict([id |-> Str(id), status |-> Str("open")])

NationUSA ==
    Dict([nationId |-> Str("USA"),
          name |-> Str("United States"),
          internalAffairs |-> Dict([stability |-> Num(60)]),
          scores |-> List(<<Num(10), Num(20), Num(10)>>),
          items |-> List(<<Item("X"), Item("Y"), Item("X")>>),
          nationwideImpacts |-> EmptyList])

\* a state document as the initializer leaves it (the keys the engines read)
InitialDocument ==
    Dict([current_date |-> Time(0),
          nations |-> Dict([USA |-> NationUSA]),
          globalEvents |-> EmptyList,
          effects |-> EmptyList,
          ramifications |-> EmptyList,
          conflicts |-> Dict([activeWars |-> EmptyList])])

\* a Ramification record as stored in global_state["ramifications"]
Ram(keys, operation, value, identifier, execution_time) ==
    Dict([targetPath |-> Path(keys),
          operation |-> Str(operation),
          value |-> value,
          valueIdentifier |-> identifier,
          executionTime |-> execution_time,
          status |-> Str("pending"),
          failureReason |-> Null])

Without(d, k) == Dict([j \in (DOMAIN d.v) \ {k} |-> d.v[j]])

\* the Ramifications a loaded state file may hold: every operation, on existing and
\* missing paths, due at day 1, due at day 2, not due within MaxTime, and malformed
ExecTemplates ==
    { Ram(STAB, op, Num(15), Null, Time(1)) : op \in {"add", "subtract", "multiply", "divide", "negate"} }
    \cup { Ram(STAB, "divide", Num(0), Null, Time(1)),
           Ram(STAB, "add", Str("x"), Null, Time(1)),
           Ram(STAB, "set", Num(7), Null, Time(1)),
           Ram(SCORE0, "add", Num(5), Null, Time(1)),
           Ram(SCORE0, "divide", Num(0), Null, Time(1)),
           Ram(SCORE0, "remove_item", Null, Null, Time(1)),
           Ram(SCORE0, "set", List(<<Num(1)>>), Null, Time(1)),
           Ram(NEWFLAG, "set", Bool(TRUE), Null, Time(1)),
           Ram(NEWSEC, "set", Bool(TRUE), Null, Time(1)),
           Ram(NEWLIST0, "set", Num(1), Null, Time(1)),
           Ram(NEWLIST1, "set", Num(1), Null, Time(1)),
           Ram(NEWLIST0X, "set", Num(1), Null, Time(1)),
           Ram(SCORES, "remove_item", Num(10), Null, Time(1)),
           Ram(SCORES, "remove_item", Num(99), Null, Time(1)),
           Ram(SCORES, "add", Str("x"), Null, Time(1)),
           Ram(ITEMS, "remove_item", Null, Dict([id |-> Str("X")]), Time(1)),
           Ram(ITEMS, "update_item", Dict([status |-> Str("closed")]), Dict([id |-> Str("X")]), Time(1)),
           Ram(ITEMS, "update_item", Dict([status |-> Str("closed")]), Dict([id |-> Str("Z")]), Time(1)),
           Ram(ITEMS, "update_item", Dict([status |-> Str("closed")]), Null, Time(1)),
           Ram(STAB, "update_item", Dict([status |-> Str("closed")]), Dict([id |-> Str("X")]), Time(1)),
           Ram(BADPATH, "add", Num(1), Null, Time(1)),
           Ram(STAB, "add", Num(15), Null, Time(2)),
           Ram(STAB, "subtract", Num(15), Null, Time(MaxTime + 1)),
           Ram(STAB, "add", Num(15), Null, Str("next month")),
           Without(Ram(STAB, "add", Num(15), Null, Time(1)), "executionTime"),
           Without(Ram(STAB, "add", Num(15), Null, Time(1)), "targetPath") }

----------------------------------------------------------------------------
(* RamificationExecutor.execute_pending_ramifications as steps *)

\* lines 123-133: parse the time and collect the pending indices
ExecBegin(now) ==
    /\ indices_to_process' = PendingIndices(global_state)
    /\ current_time' = now
    /\ pc' = "exec_loop"

\* lines 135-277: one pass of the for loop
ExecIteration ==
    /\ pc = "exec_loop"
    /\ indices_to_process # <<>>
    /\ global_state' = execute_one(global_state, Head(indices_to_process), current_time)
    /\ indices_to_process' =
          RemainingIndices(execute_one(global_state, Head(indices_to_process), current_time),
                           indices_to_process)
    /\ UNCHANGED <<engineVars, pc, current_time, calls>>

\* lines 279-280: the loop is over and the call returns to ret
ExecReturn(ret) ==
    /\ pc = "exec_loop"
    /\ indices_to_process = <<>>
    /\ pc' = ret
    /\ UNCHANGED <<engineVars, global_state, indices_to_process, current_time, calls>>

\* a caller invokes the executor on a loaded document, with the same or a later time
ExecCall ==
    /\ pc = "idle"
    /\ calls < MaxCalls
    /\ \E now \in current_time..MaxTime : ExecBegin(now)
    /\ calls' = calls + 1
    /\ UNCHANGED <<engineVars, global_state>>

ExecDone == ExecReturn("idle")

ExecInit ==
    /\ global_state \in { DictPut(InitialDocument, "ramifications", List(rams)) :
                            rams \in [1..MaxRams -> ExecTemplates] }
    /\ pending_events = <<>>
    /\ time_step = 0
    /\ pc = "idle"
    /\ user_input = ""
    /\ indices_to_process = <<>>
    /\ current_time = 1
    /\ disk = Null
    /\ next_id = 1
    /\ auto_left = 0
    /\ tick_start = 0
    /\ calls = 0
    /\ event_request = <<>>

ExecNext == ExecCall \/ ExecIteration \/ ExecDone

SpecExec == ExecInit /\ [][ExecNext]_vars

----------------------------------------------------------------------------
(* EventEngine: condition evaluation, user override, merge *)

StepDays == 30
CasualtyThreshold == 10000

Uuid(n) == [t |-> "uuid", v |-> n]

\* the general ramification hints the two checks attach to their events
Hint(type, severity) == Dict([ramificationType |-> Str(type), severity |-> Str(severity)])

\* mutant: the threshold itself counts
GreaterThan_OrEqual(x, k) == NumVal(x)[1] >= k * NumVal(x)[2]

\* n/d > k and n/d < -3/100 on a numeric value
GreaterThan(x, k) == NumVal(x)[1] > k * NumVal(x)[2]
BelowMinusThreePercent(x) == NumVal(x)[1] * 100 < (0 - 3) * NumVal(x)[2]

\* list + list on two values that are lists
Concat(a, b) == List(a.v \o b.v)

\* x.get(k, default) for a record x: the default only when the key is absent
GetOr(x, k, default) == IF HasKey(x, k) THEN x.v[k] ELSE default

\* check_conflicts, lines 352-358: the statements that raise on one war. war.get and
\* casualties.get raise AttributeError on a value that is no object; once the war
\* triggers, belligerents.get raises AttributeError on a value that is no object and
\* sideA + sideB raises TypeError when one side is a list and the other is not
ConflictRaises(war) ==
    \/ war.t # "dict"
    \/ GetOr(war, "casualties", EmptyDict).t # "dict"
    \/ /\ IsStr(DGet(war, "status"), "Ongoing")
       /\ IsNumeric(GetOr(GetOr(war, "casualties", EmptyDict), "military", Num(0)))
       /\ GreaterThan(GetOr(GetOr(war, "casualties", EmptyDict), "military", Num(0)), CasualtyThreshold)
       /\ \/ GetOr(war, "belligerents", EmptyDict).t # "dict"
          \/ GetOr(GetOr(war, "belligerents", EmptyDict), "sideA", EmptyList).t # "list"
          \/ GetOr(GetOr(war, "belligerents", EmptyDict), "sideB", EmptyList).t # "list"

\* check_conflicts: the event queued for one war, <<>> when the war does not trigger
ConflictEvents(war, day, id) ==
    LET casualties == GetOr(war, "casualties", EmptyDict)
        military == GetOr(casualties, "military", Num(0))
        mil_casualties == IF IsNumeric(military) THEN military ELSE Num(0)
        belligerents == GetOr(war, "belligerents", EmptyDict)
        sideA == GetOr(belligerents, "sideA", EmptyList)
        sideB == GetOr(belligerents, "sideB", EmptyList)
    IN  IF IsStr(DGet(war, "status"), "Ongoing") /\ GreaterThan(mil_casualties, CasualtyThreshold)
        THEN << Dict([eventId |-> Uuid(id),
                      eventType |-> Str("Conflict"),
                      eventData |-> Dict([status |-> Str("Escalated"), startDate |-> Time(day)]),
                      parentEventId |-> DGet(war, "eventId"),
                      participatingNations |-> Concat(sideA, sideB),
                      ramifications |-> List(<<Hint("Military", "High"), Hint("Political", "Moderate")>>)]) >>
        ELSE <<>>

\* mutant: a war that already has an event in the log is passed over
check_conflicts_Once(gs, day, id) ==
    LET conflicts_data == GetOr(gs, "conflicts", EmptyDict)
        activeWars == GetOr(conflicts_data, "activeWars", EmptyList).v
        log == GetOr(gs, "globalEvents", EmptyList).v
        fired(war) == \E n \in 1..Len(log) : DGet(log[n], "parentEventId") = DGet(war, "eventId")
        F[i \in 0..Len(activeWars)] ==
            IF i = 0 THEN [events |-> <<>>, id |-> id, raised |-> FALSE]
            ELSE IF F[i - 1].raised THEN F[i - 1]
            ELSE IF ConflictRaises(activeWars[i]) THEN [F[i - 1] EXCEPT !.raised = TRUE]
            ELSE IF fired(activeWars[i]) THEN F[i - 1]
            ELSE LET ev == ConflictEvents(activeWars[i], day, F[i - 1].id)
                 IN  [events |-> F[i - 1].events \o ev, id |-> F[i - 1].id + Len(ev), raised |-> FALSE]
    IN  F[Len(activeWars)]

\* check_conflicts over activeWars: [events, id, raised]; the loop ends at the first war
\* that raises, with the events of the wars before it already appended
check_conflicts(gs, day, id) ==
    LET conflicts_data == GetOr(gs, "conflicts", EmptyDict)
        activeWars == GetOr(conflicts_data, "activeWars", EmptyList).v
        F[i \in 0..Len(activeWars)] ==
            IF i = 0 THEN [events |-> <<>>, id |-> id, raised |-> FALSE]
            ELSE IF F[i - 1].raised THEN F[i - 1]
            ELSE IF ConflictRaises(activeWars[i]) THEN [F[i - 1] EXCEPT !.raised = TRUE]
            ELSE LET ev == ConflictEvents(activeWars[i], day, F[i - 1].id)
                 IN  [events |-> F[i - 1].events \o ev, id |-> F[i - 1].id + Len(ev), raised |-> FALSE]
    IN  F[Len(activeWars)]

\* the nation keys in the order the dict is iterated
RECURSIVE KeysOf(_)
KeysOf(S) == IF S = {} THEN <<>> ELSE LET k == CHOOSE x \in S : TRUE IN <<k>> \o KeysOf(S \ {k})

\* check_economic_events, lines 380-383: nation_obj.get, internalAffairs.get and
\* economicIndicators.get raise AttributeError on a value that is no object
EconomicRaises(nation_obj) ==
    \/ nation_obj.t # "dict"
    \/ GetOr(nation_obj, "internalAffairs", EmptyDict).t # "dict"
    \/ GetOr(GetOr(nation_obj, "internalAffairs", EmptyDict), "economicIndicators", EmptyDict).t # "dict"

\* check_economic_events: the event queued for one nation
EconomicEvents(nation_id, nation_obj, day, id) ==
    LET internal == GetOr(nation_obj, "internalAffairs", EmptyDict)
        indicators == GetOr(internal, "economicIndicators", EmptyDict)
        gdp_growth == GetOr(indicators, "gdpGrowthRate", Num(0))
    IN  IF IsNumeric(gdp_growth) /\ BelowMinusThreePercent(gdp_growth)
        THEN << Dict([eventId |-> Uuid(id),
                      eventType |-> Str("Economic Event"),
                      eventData |-> Dict([governmentResponse |-> Str("Pending"), startDate |-> Time(day)]),
                      parentEventId |-> Null,
                      participatingNations |-> List(<<Str(nation_id)>>),
                      ramifications |-> List(<<Hint("Economic", "High"), Hint("Political", "Moderate")>>)]) >>
        ELSE <<>>

\* check_economic_events over the nations: [events, id, raised]
check_economic_events(gs, day, id) ==
    LET nations == GetOr(gs, "nations", EmptyDict)
        keys == KeysOf(DOMAIN nations.v)
        F[i \in 0..Len(keys)] ==
            IF i = 0 THEN [events |-> <<>>, id |-> id, raised |-> FALSE]
            ELSE IF F[i - 1].raised THEN F[i - 1]
            ELSE IF EconomicRaises(nations.v[keys[i]]) THEN [F[i - 1] EXCEPT !.raised = TRUE]
            ELSE LET ev == EconomicEvents(keys[i], nations.v[keys[i]], day, F[i - 1].id)
                 IN  [events |-> F[i - 1].events \o ev, id |-> F[i - 1].id + Len(ev), raised |-> FALSE]
    IN  F[Len(keys)]

\* evaluate_conditions: [events, id, raised], the events appended to pending_events;
\* check_economic_events is not reached when check_conflicts raises
evaluate_conditions(gs, day, id) ==
    LET Economic(c, e) == [events |-> c.events \o e.events, id |-> e.id, raised |-> e.raised]
        Conflicts(c) == IF c.raised THEN c ELSE Economic(c, check_economic_events(gs, day, c.id))
    IN  Conflicts(check_conflicts(gs, day, id))

\* mutant: the input is searched as typed, not in lower case
MentionsPreventWar_CaseSensitive(input) == input \in {"prevent war", "please prevent war now"}

\* "prevent war" in user_input.lower(), for the inputs of the model
MentionsPreventWar(input) == input \in {"prevent war", "Prevent War", "please prevent war now"}

\* process_user_input
process_user_input(pending, input) ==
    IF MentionsPreventWar(input)
    THEN SelectSeq(pending, LAMBDA ev : ~IsStr(DGet(ev, "eventType"), "Conflict"))
    ELSE pending

\* mutant: only the first pending event is merged
update_json_schemas_OnlyFirst(gs, pending) ==
    IF pending # <<>>
    THEN DictPut(gs, "globalEvents", List(Append(gs.v["globalEvents"].v, Head(pending))))
    ELSE gs

\* mutant: Conflict events are added to conflicts.activeWars, the others to the log
update_json_schemas_Dispatch(gs, pending) ==
    Replace(DictPut(gs, "globalEvents",
                    List(gs.v["globalEvents"].v
                         \o SelectSeq(pending, LAMBDA ev : ~IsStr(DGet(ev, "eventType"), "Conflict")))),
            <<"conflicts", "activeWars">>,
            List(gs.v["conflicts"].v["activeWars"].v
                 \o SelectSeq(pending, LAMBDA ev : IsStr(DGet(ev, "eventType"), "Conflict"))))

\* update_json_schemas
update_json_schemas(gs, pending) ==
    IF pending # <<>>
    THEN DictPut(gs, "globalEvents", List(gs.v["globalEvents"].v \o pending))
    ELSE gs

\* advance_time: the new current_date
advance_time(gs, day) == DictPut(gs, "current_date", Time(day))

----------------------------------------------------------------------------
(* EventEngine.apply_ramifications: Impact -> Effect -> Ramification *)

\* mutant: a Military hint is mapped to Other
effect_type_map_MilitaryOther ==
    ("Political" :> "Political Shift") @@ ("Economic" :> "Economic Change")
    @@ ("Social" :> "Social Upheaval") @@ ("Technological" :> "Technological Advancement")
    @@ ("Military" :> "Other") @@ ("Diplomatic" :> "Diplomatic Realignment")
    @@ ("Environmental" :> "Environmental Consequence") @@ ("Cultural" :> "Cultural Trend")
    @@ ("Humanitarian" :> "Resource Strain") @@ ("Legal" :> "Political Shift") @@ ("Other" :> "Other")

effect_type_map ==
    ("Political" :> "Political Shift") @@ ("Economic" :> "Economic Change")
    @@ ("Social" :> "Social Upheaval") @@ ("Technological" :> "Technological Advancement")
    @@ ("Military" :> "Military Posture Change") @@ ("Diplomatic" :> "Diplomatic Realignment")
    @@ ("Environmental" :> "Environmental Consequence") @@ ("Cultural" :> "Cultural Trend")
    @@ ("Humanitarian" :> "Resource Strain") @@ ("Legal" :> "Political Shift") @@ ("Other" :> "Other")

severity_map ==
    ("Minimal" :> "Minimal") @@ ("Low" :> "Low") @@ ("Moderate" :> "Moderate") @@ ("High" :> "High")
    @@ ("Severe" :> "Severe") @@ ("Critical" :> "Critical") @@ ("Unprecedented" :> "Transformative")

\* mutant: a value the map does not know is passed through
Mapped_NoFallback(map, hint, key, default, fallback) ==
    LET x == IF HasKey(hint, key) THEN hint.v[key] ELSE Str(default)
    IN  IF x.t = "str" /\ x.v \in DOMAIN map THEN map[x.v] ELSE IF x.t = "str" THEN x.v ELSE fallback

\* map.get(hint.get(key, default), fallback)
Mapped(map, hint, key, default, fallback) ==
    LET x == IF HasKey(hint, key) THEN hint.v[key] ELSE Str(default)
    IN  IF x.t = "str" /\ x.v \in DOMAIN map THEN map[x.v] ELSE fallback

\* _get_nation_data: the key of the nation record an identifier (id or name) resolves to
NationKey(gs, identifier) ==
    LET nations == DGet(gs, "nations")
    IN  IF nations.t # "dict" THEN [found |-> FALSE, key |-> ""]
        ELSE IF identifier.t = "str" /\ identifier.v \in DOMAIN nations.v
             THEN [found |-> TRUE, key |-> identifier.v]
        ELSE IF \E k \in DOMAIN nations.v : PyEq(DGet(nations.v[k], "name"), identifier)
             THEN [found |-> TRUE,
                   key |-> CHOOSE k \in DOMAIN nations.v : PyEq(DGet(nations.v[k], "name"), identifier)]
        ELSE [found |-> FALSE, key |-> ""]

create_nationwide_impact(nation_id, global_event_id, day, impact_id) ==
    Dict([impactId |-> impact_id,
          nationId |-> nation_id,
          originGlobalEventId |-> global_event_id,
          impactTriggerDate |-> Time(day),
          effectIds |-> EmptyList,
          isActive |-> Bool(TRUE),
          estimatedEndDate |-> Null])

create_effect(nation_id, impact_id, global_ramification, day, effect_id) ==
    Dict([effectId |-> effect_id,
          originImpactId |-> impact_id,
          nationId |-> nation_id,
          effectType |-> Str(Mapped(effect_type_map, global_ramification, "ramificationType", "Other", "Other")),
          severity |-> Str(Mapped(severity_map, global_ramification, "severity", "Low", "Low")),
          startDate |-> Time(day),
          isActive |-> Bool(TRUE),
          estimatedEndDate |-> Null,
          ramificationIds |-> EmptyList])

\* line 664: "targetPath" in ai_generated_data raises TypeError when the result is a
\* JSON number or true
RaisesTypeError(ai_generated_data) ==
    Truthy(ai_generated_data) /\ ai_generated_data.t \in {"num", "bool"}

\* mutant: the Ramification is scheduled for the day after the step's advance
create_ramification_with_ai_Delayed(nation_id, effect_id, ai_generated_data, day, ramification_id) ==
    IF /\ Truthy(ai_generated_data)
       /\ HasKey(ai_generated_data, "targetPath")
       /\ HasKey(ai_generated_data, "operation")
       /\ HasKey(ai_generated_data, "value")
    THEN Dict([ramificationId |-> ramification_id,
               originEffectId |-> effect_id,
               nationId |-> nation_id,
               targetPath |-> ai_generated_data.v["targetPath"],
               operation |-> ai_generated_data.v["operation"],
               value |-> ai_generated_data.v["value"],
               valueIdentifier |-> Null,
               executionTime |-> Time(day + StepDays + 1),
               status |-> Str("pending"),
               failureReason |-> Null])
    ELSE Null

\* lines 664-689: the Ramification assembled from what generate_json_object returned,
\* Null when the result is None or lacks targetPath, operation or value
create_ramification_with_ai(nation_id, effect_id, ai_generated_data, day, ramification_id) ==
    IF /\ Truthy(ai_generated_data)
       /\ HasKey(ai_generated_data, "targetPath")
       /\ HasKey(ai_generated_data, "operation")
       /\ HasKey(ai_generated_data, "value")
    THEN Dict([ramificationId |-> ramification_id,
               originEffectId |-> effect_id,
               nationId |-> nation_id,
               targetPath |-> ai_generated_data.v["targetPath"],
               operation |-> ai_generated_data.v["operation"],
               value |-> ai_generated_data.v["value"],
               valueIdentifier |-> Null,
               executionTime |-> Time(day),
               status |-> Str("pending"),
               failureReason |-> Null])
    ELSE Null

\* mutant: the collection is replaced by a list of the new record
AppendTo_Replace(gs, key, x) == DictPut(gs, key, List(<<x>>))

\* global_state[key].append(x)
AppendTo(gs, key, x) == DictPut(gs, key, List(Append(gs.v[key].v, x)))

\* mutant: the parent record is left without the ids of its children
BackFill_Skipped(record, key, ids) == record

\* lines 476-482 and 485-491: the parent record is given the ids of the children made from it
BackFill(record, key, ids) == DictPut(record, key, List(ids))

\* lines 463-485: the Effects and Ramifications of one Impact, one hint after the other;
\* st = [gs, id, used, effect_ids, raised], oracle = what the model returns call by call;
\* raised: an exception has left apply_ramifications at this point
RECURSIVE HintLoop(_, _, _, _, _, _)
HintLoop(st, hints, nation_id, impact_id, day, oracle) ==
    IF hints = <<>> THEN st
    ELSE IF ~Truthy(Head(hints)) THEN HintLoop(st, Tail(hints), nation_id, impact_id, day, oracle)
    ELSE LET effect_id == Uuid(st.id)
             \* lines 476-485: the Effect is completed and the next hint is taken
             Stored(effect, ramification, made) ==
                 HintLoop([gs |-> IF made THEN AppendTo(effect, "ramifications", ramification) ELSE effect,
                           id |-> st.id + (IF made THEN 2 ELSE 1), used |-> st.used + 1,
                           effect_ids |-> Append(st.effect_ids, effect_id), raised |-> FALSE],
                          Tail(hints), nation_id, impact_id, day, oracle)
             \* lines 467-475: the Ramification of the Effect, when one was generated
             Generated(effect, ramification, made) ==
                 Stored(AppendTo(st.gs, "effects",
                                 BackFill(effect, "ramificationIds",
                                          IF made THEN <<ramification.v["ramificationId"]>> ELSE <<>>)),
                        ramification, made)
             Answered(effect, ramification) == Generated(effect, ramification, ramification.t = "dict")
             \* lines 464-466: the Effect is appended before the model is asked
             Created(effect) ==
                 IF RaisesTypeError(oracle[st.used + 1])
                 THEN [st EXCEPT !.gs = AppendTo(st.gs, "effects", effect),
                                 !.id = st.id + 1, !.used = st.used + 1, !.raised = TRUE]
                 ELSE Answered(effect,
                               create_ramification_with_ai(nation_id, effect_id, oracle[st.used + 1],
                                                           day, Uuid(st.id + 1)))
         IN  Created(create_effect(nation_id, impact_id, Head(hints), day, effect_id))

\* lines 447-494: one Impact per participant that resolves to a nation record
RECURSIVE NationLoop(_, _, _, _, _)
NationLoop(st, global_event, participants, day, oracle) ==
    IF participants = <<>> THEN st
    ELSE LET nation_id == Head(participants)
             impact_id == Uuid(st.id)
             event_id == IF HasKey(global_event, "eventId") THEN global_event.v["eventId"]
                         ELSE Str("unknown_event")
             hints == IF HasKey(global_event, "ramifications")
                      THEN global_event.v["ramifications"].v ELSE <<>>
             \* an exception leaves the loop, otherwise the next participant is taken
             Continue(next) ==
                 IF next.raised THEN next
                 ELSE NationLoop(next, global_event, Tail(participants), day, oracle)
             \* lines 455-458: the Impact in the nation's nationwideImpacts
             Attached(after, key, nation_obj, impact) ==
                 Continue([gs |-> Replace(after.gs, <<"nations", key>>,
                                          DictPut(nation_obj, "nationwideImpacts",
                                                  List(Append(IF HasKey(nation_obj, "nationwideImpacts")
                                                              THEN nation_obj.v["nationwideImpacts"].v
                                                              ELSE <<>>,
                                                              impact)))),
                           id |-> after.id, used |-> after.used,
                           effect_ids |-> <<>>, raised |-> after.raised])
             \* lines 486-491: the Impact is given its effectIds when the hints are done
             Returned(after, key, created) ==
                 Attached(after, key, after.gs.v["nations"].v[key],
                          IF after.raised THEN created
                          ELSE BackFill(created, "effectIds", after.effect_ids))
             Resolved(nk) ==
                 IF ~nk.found THEN NationLoop(st, global_event, Tail(participants), day, oracle)
                 ELSE Returned(HintLoop([gs |-> st.gs, id |-> st.id + 1, used |-> st.used,
                                         effect_ids |-> <<>>, raised |-> FALSE],
                                        hints, nation_id, impact_id, day, oracle),
                               nk.key,
                               create_nationwide_impact(nation_id, event_id, day, impact_id))
         IN  Resolved(NationKey(st.gs, nation_id))

\* lines 442-445: every pending event in turn
RECURSIVE EventLoop(_, _, _, _)
EventLoop(st, events, day, oracle) ==
    IF events = <<>> THEN st
    ELSE LET participating == IF HasKey(Head(events), "participatingNations")
                              THEN Head(events).v["participatingNations"].v ELSE <<>>
             Returned(after) == IF after.raised THEN after ELSE EventLoop(after, Tail(events), day, oracle)
         IN  Returned(NationLoop(st, Head(events), participating, day, oracle))

\* mutant: the whole event log is processed, not the events of this step
events_to_process_History(gs, pending) == gs.v["globalEvents"].v

\* line 440: the events consequence synthesis goes through
events_to_process(gs, pending) == pending

apply_ramifications(gs, pending, day, id, oracle) ==
    EventLoop([gs |-> gs, id |-> id, used |-> 0, effect_ids |-> <<>>, raised |-> FALSE],
              events_to_process(gs, pending), day, oracle)

\* the number of generate_json_object requests apply_ramifications will make
RECURSIVE CountCalls(_, _)
CountCalls(gs, events) ==
    IF events = <<>> THEN 0
    ELSE LET ev == Head(events)
             participating == IF HasKey(ev, "participatingNations") THEN ev.v["participatingNations"].v ELSE <<>>
             hints == IF HasKey(ev, "ramifications") THEN ev.v["ramifications"].v ELSE <<>>
             resolved == Cardinality({i \in 1..Len(participating) : NationKey(gs, participating[i]).found})
             asked == Cardinality({i \in 1..Len(hints) : Truthy(hints[i])})
         IN  resolved * asked + CountCalls(gs, Tail(events))

\* what generate_json_object may return for a Ramification: None after the retries, an
\* object without value, objects with a path, an operation and a value (a field of a
\* nation, a path that names nothing with an operator outside the enum, a merged event, a
\* top-level collection), and a JSON number
AiRamifications ==
    { Null,
      Dict([targetPath |-> Path(STAB), operation |-> Str("subtract")]),
      Dict([targetPath |-> Path(STAB), operation |-> Str("subtract"), value |-> Num(15)]),
      Dict([targetPath |-> Path(BADPATH), operation |-> Str("increase"), value |-> Num(10)]),
      Dict([targetPath |-> Path(EVENTTYPE0), operation |-> Str("set"), value |-> Str("Revised")]),
      Dict([targetPath |-> Path(<<"conflicts">>), operation |-> Str("set"), value |-> EmptyDict]),
      Num(7) }

\* what generate_json_object may return for an event request
AiEvents ==
    { Null,
      Dict([eventId |-> Str("treaty")]),
      Dict([eventId |-> Str("treaty"), eventType |-> Str("Political Event")]),
      Dict([eventId |-> Str("summit"), eventType |-> Str("Political Event"),
            participatingNations |-> List(<<Str("USA"), Str("United States")>>)]),
      Dict([eventId |-> Str("raid"), eventType |-> Str("Conflict"),
            participatingNations |-> List(<<Str("United States")>>),
            ramifications |-> List(<<Hint("Espionage", "Huge"), EmptyDict>>)]) }

\* what generate_json_object may return for the entity extraction request: None after the
\* retries, or an object
AiEntities ==
    { Null,
      Dict([identified_nations |-> List(<<Str("USA")>>), suggested_event_type |-> Str("Political Event")]) }

\* _build_context_for_user_event, lines 912-917, after the entities have been extracted:
\* economy.get and conflicts.get raise AttributeError when globalEconomy or conflicts is
\* no object
ContextRaises(gs) ==
    \/ GetOr(gs, "globalEconomy", EmptyDict).t # "dict"
    \/ GetOr(gs, "conflicts", EmptyDict).t # "dict"

\* mutant: any object the model returns is queued
queue_generated_event_Unchecked(pending, generated_event_obj) ==
    IF Truthy(generated_event_obj) /\ generated_event_obj.t = "dict"
    THEN Append(pending, generated_event_obj)
    ELSE pending

\* lines 1070-1084: the pending list after the generated object has been validated
queue_generated_event(pending, generated_event_obj) ==
    IF /\ Truthy(generated_event_obj)
       /\ generated_event_obj.t = "dict"
       /\ HasKey(generated_event_obj, "eventId")
       /\ HasKey(generated_event_obj, "eventType")
    THEN LET a == IF HasKey(generated_event_obj, "participatingNations") THEN generated_event_obj
                  ELSE DictPut(generated_event_obj, "participatingNations", EmptyList)
             b == IF HasKey(a, "ramifications") THEN a ELSE DictPut(a, "ramifications", EmptyList)
         IN  Append(pending, b)
    ELSE pending

----------------------------------------------------------------------------
(* TimeEngine.main_loop, run_auto_steps, jump_to_date and EventEngine.run_simulation_step *)

\* mutant: the executor runs before the time is advanced
TickOrder_ExecuteFirst ==
    <<"evaluate", "override", "merge", "synthesize", "execute", "advance", "clear", "save">>

\* mutant: the document is saved when run_simulation_step has returned, before the
\* executor call
TickOrder_SaveFirst ==
    <<"evaluate", "override", "merge", "synthesize", "advance", "clear", "save", "execute">>

\* the order of the parts of one step: run_simulation_step (evaluate .. clear), then the
\* executor call and the save of TimeEngine
TickOrder ==
    <<"evaluate", "override", "merge", "synthesize", "advance", "clear", "execute", "save">>

After(p) ==
    LET i == CHOOSE n \in 1..Len(TickOrder) : TickOrder[n] = p
    IN  IF i = Len(TickOrder) THEN "end" ELSE TickOrder[i + 1]

MaxAuto == 2
JumpDays == {10, 45}

\* a war with 12000 military casualties and a nation in recession
War ==
    Dict([eventId |-> Str("war-1"),
          status |-> Str("Ongoing"),
          casualties |-> Dict([military |-> Num(12000)]),
          belligerents |-> Dict([sideA |-> List(<<Str("USA")>>), sideB |-> List(<<Str("USSR")>>)])])

\* the document load_global_state returns when there is no state file (lines 56-74), as
\* _validate_and_prepare_state leaves it: the empty nations list has become a map,
\* effects and ramifications have been added, globalEconomy is the list it was
DefaultDocument ==
    Dict([current_date |-> Time(0),
          nations |-> EmptyDict,
          conflicts |-> Dict([activeWars |-> EmptyList]),
          globalEconomy |-> EmptyList,
          globalEvents |-> EmptyList,
          effects |-> EmptyList,
          ramifications |-> EmptyList])

\* a saved document that holds a pending Ramification scheduled for day 20, with the Effect
\* and the Impact it came from
ScheduledDocument ==
    Replace(Replace(Replace(InitialDocument,
        <<"nations", "USA", "nationwideImpacts">>,
        List(<<DictPut(create_nationwide_impact(Str("USA"), Str("g0"), 0, Str("i0")),
                       "effectIds", List(<<Str("e0")>>))>>)),
        <<"effects">>,
        List(<<DictPut(create_effect(Str("USA"), Str("i0"), Null, 0, Str("e0")),
                       "ramificationIds", List(<<Str("r0")>>))>>)),
        <<"ramifications">>,
        List(<<DictUpdate(Ram(STAB, "subtract", Num(15), Null, Time(20)),
                          Dict([ramificationId |-> Str("r0"), originEffectId |-> Str("e0"),
                                nationId |-> Str("USA")]))>>))

EngineDocuments ==
    { DefaultDocument,
      ScheduledDocument,
      Replace(InitialDocument, <<"conflicts", "activeWars">>, List(<<War>>)),
      Replace(InitialDocument, <<"nations", "USA", "internalAffairs">>,
              Dict([stability |-> Num(60), economicIndicators |-> Dict([gdpGrowthRate |-> Rat(0 - 5, 100)])])) }

Init ==
    /\ global_state \in EngineDocuments
    /\ pending_events = <<>>
    /\ time_step = 0
    /\ pc = "idle"
    /\ user_input = ""
    /\ indices_to_process = <<>>
    /\ current_time = 0
    /\ disk = Null
    /\ next_id = 1
    /\ auto_left = 0
    /\ tick_start = 0
    /\ calls = 0
    /\ event_request = <<>>

execVars == <<indices_to_process, current_time>>

\* main_loop, 'next' or an empty line: one step, the line is the step input
NextCommand ==
    /\ pc = "idle"
    /\ calls < MaxCalls
    /\ \E raw \in {"", "next"} : user_input' = raw
    /\ pc' = TickOrder[1]
    /\ tick_start' = time_step
    /\ calls' = calls + 1
    /\ event_request' = <<>>
    /\ UNCHANGED <<global_state, pending_events, time_step, disk, next_id, auto_left, execVars>>

\* main_loop, 'auto <steps>': run_auto_steps with an empty step input
AutoCommand ==
    /\ pc = "idle"
    /\ \E steps \in 1..MaxAuto :
          /\ calls + steps <= MaxCalls
          /\ auto_left' = steps
          /\ calls' = calls + steps
    /\ user_input' = ""
    /\ pc' = TickOrder[1]
    /\ tick_start' = time_step
    /\ event_request' = <<>>
    /\ UNCHANGED <<global_state, pending_events, time_step, disk, next_id, execVars>>

\* main_loop, 'generate event: <prompt>': generate_event_from_prompt
GenerateEventCommand ==
    /\ pc = "idle"
    /\ calls < MaxCalls
    /\ \E ai_result \in AiEntities, generated_event_obj \in AiEvents :
          IF ContextRaises(global_state)
          THEN /\ event_request' = <<ai_result>>
               /\ pc' = "crashed"
               /\ UNCHANGED pending_events
          ELSE /\ event_request' = <<ai_result, generated_event_obj>>
               /\ pending_events' = queue_generated_event(pending_events, generated_event_obj)
               /\ UNCHANGED pc
    /\ calls' = calls + 1
    /\ UNCHANGED <<global_state, time_step, user_input, disk, next_id, auto_left, tick_start, execVars>>

\* main_loop, 'jump <date>': jump_to_date sets the date and saves
JumpCommand ==
    /\ pc = "idle"
    /\ calls < MaxCalls
    /\ \E target \in JumpDays :
          /\ global_state' = DictPut(global_state, "current_date", Time(target))
          /\ time_step' = target
          /\ disk' = DictPut(global_state, "current_date", Time(target))
    /\ calls' = calls + 1
    /\ event_request' = <<>>
    /\ UNCHANGED <<pending_events, pc, user_input, next_id, auto_left, tick_start, execVars>>

\* main_loop, any other line: unknown command, nothing happens
UnknownCommand ==
    /\ pc = "idle"
    /\ calls < MaxCalls
    /\ calls' = calls + 1
    /\ event_request' = <<>>
    /\ UNCHANGED <<global_state, pending_events, time_step, pc, user_input, disk, next_id,
                   auto_left, tick_start, execVars>>

\* run_simulation_step, line 708
Evaluate ==
    /\ pc = "evaluate"
    /\ \E r \in {evaluate_conditions(global_state, time_step, next_id)} :
           /\ pending_events' = pending_events \o r.events
           /\ next_id' = r.id
           /\ pc' = IF r.raised THEN "crashed" ELSE After("evaluate")
    /\ UNCHANGED <<global_state, time_step, user_input, disk, auto_left, tick_start, calls, execVars, event_request>>

\* run_simulation_step, lines 710-711
Override ==
    /\ pc = "override"
    /\ pending_events' = IF user_input # "" THEN process_user_input(pending_events, user_input)
                         ELSE pending_events
    /\ pc' = After("override")
    /\ UNCHANGED <<global_state, time_step, user_input, disk, next_id, auto_left, tick_start, calls, execVars, event_request>>

\* run_simulation_step, line 714
Merge ==
    /\ pc = "merge"
    /\ global_state' = update_json_schemas(global_state, pending_events)
    /\ pc' = After("merge")
    /\ UNCHANGED <<pending_events, time_step, user_input, disk, next_id, auto_left, tick_start, calls, execVars, event_request>>

\* run_simulation_step, line 724; an exception apply_ramifications raises is caught
\* nowhere and ends the program
Synthesize ==
    /\ pc = "synthesize"
    /\ \E oracle \in [1..CountCalls(global_state, events_to_process(global_state, pending_events))
                         -> AiRamifications] :
          \E r \in {apply_ramifications(global_state, pending_events, time_step, next_id, oracle)} :
              /\ Len(Ramifications(r.gs)) <= MaxRams
              /\ global_state' = r.gs
              /\ next_id' = r.id
              /\ pc' = IF r.raised THEN "crashed" ELSE After("synthesize")
    /\ UNCHANGED <<pending_events, time_step, user_input, disk, auto_left, tick_start, calls, execVars, event_request>>

\* run_simulation_step, line 727
Advance ==
    /\ pc = "advance"
    /\ time_step' = time_step + StepDays
    /\ global_state' = advance_time(global_state, time_step + StepDays)
    /\ pc' = After("advance")
    /\ UNCHANGED <<pending_events, user_input, disk, next_id, auto_left, tick_start, calls, execVars, event_request>>

\* run_simulation_step, line 730
Clear ==
    /\ pc = "clear"
    /\ pending_events' = <<>>
    /\ pc' = After("clear")
    /\ UNCHANGED <<global_state, time_step, user_input, disk, next_id, auto_left, tick_start, calls, execVars, event_request>>

\* main_loop lines 173-177, run_auto_steps lines 207-210: the executor is called with the
\* document's current_date
Execute ==
    /\ pc = "execute"
    /\ ExecBegin(global_state.v["current_date"].v)
    /\ UNCHANGED <<engineVars, global_state, calls>>

ExecuteDone == ExecReturn(After("execute"))

\* main_loop line 182, run_auto_steps line 214: save, then the next automatic step or the prompt
Save ==
    /\ pc = "save"
    /\ disk' = global_state
    /\ IF auto_left > 1
       THEN /\ auto_left' = auto_left - 1
            /\ pc' = TickOrder[1]
            /\ tick_start' = time_step
       ELSE /\ auto_left' = 0
            /\ pc' = "idle"
            /\ UNCHANGED tick_start
    /\ UNCHANGED <<global_state, pending_events, time_step, user_input, next_id, calls, execVars, event_request>>

Next ==
    \/ NextCommand
    \/ AutoCommand
    \/ GenerateEventCommand
    \/ JumpCommand
    \/ UnknownCommand
    \/ Evaluate
    \/ Override
    \/ Merge
    \/ Synthesize
    \/ Advance
    \/ Clear
    \/ Execute
    \/ ExecIteration
    \/ ExecuteDone
    \/ Save

Spec == Init /\ [][Next]_vars

----------------------------------------------------------------------------
(* EventEngine.run_simulation_step called with a free-text step input *)

\* run_simulation_step(user_input) with an input that asks for the override and one that
\* does not; the caller then runs the executor and saves, as main_loop does at lines
\* 166-183 (main_loop itself passes only the empty line and 'next')
StepCall ==
    /\ pc = "idle"
    /\ calls < MaxCalls
    /\ \E raw \in {"Prevent War", "declare peace"} : user_input' = raw
    /\ pc' = TickOrder[1]
    /\ tick_start' = time_step
    /\ calls' = calls + 1
    /\ event_request' = <<>>
    /\ UNCHANGED <<global_state, pending_events, time_step, disk, next_id, auto_left, execVars>>

EngineNext ==
    \/ StepCall
    \/ GenerateEventCommand
    \/ Evaluate
    \/ Override
    \/ Merge
    \/ Synthesize
    \/ Advance
    \/ Clear
    \/ Execute
    \/ ExecIteration
    \/ ExecuteDone
    \/ Save

SpecEngine == Init /\ [][EngineNext]_vars

----------------------------------------------------------------------------
(* EventEngine.evaluate_conditions on its own, over the records it scans *)

MaxWars == 2

\* an active war record
WarRecord(id, status, military) ==
    Dict([eventId |-> Str(id),
          status |-> Str(status),
          casualties |-> Dict([military |-> military]),
          belligerents |-> Dict([sideA |-> List(<<Str("USA")>>), sideB |-> List(<<Str("USSR"), Str("UK")>>)])])

\* wars at, above and below the threshold, ongoing and ended, with casualties that are no
\* number, without casualties and belligerents, with a number where the casualties object
\* is expected and with a list where the belligerents object is expected
WarTemplates ==
    { WarRecord("war", status, military) :
         status \in {"Ongoing", "Ended"}, military \in {Num(10000), Num(10001), Rat(20001, 2)} }
    \cup { WarRecord("war", "Ongoing", Str("many")),
           WarRecord("war", "Ongoing", Bool(TRUE)),
           Dict([eventId |-> Str("war"), status |-> Str("Ongoing")]),
           Dict([eventId |-> Str("war"), status |-> Str("Ongoing"), casualties |-> Num(12000)]),
           DictPut(WarRecord("war", "Ongoing", Num(10001)), "belligerents", List(<<Str("USA")>>)) }

\* growth rates at, above and below -3%, and one that is no number
GrowthRates == {Rat(0 - 5, 100), Rat(0 - 3, 100), Rat(0 - 29, 1000), Num(0), Str("n/a")}

NationWithGrowth(id, rate) ==
    Dict([nationId |-> Str(id),
          name |-> Str(id),
          internalAffairs |-> Dict([stability |-> Num(60), economicIndicators |-> Dict([gdpGrowthRate |-> rate])]),
          nationwideImpacts |-> EmptyList])

EvalDocuments ==
    { DictPut(DictPut(InitialDocument, "conflicts", Dict([activeWars |-> List(wars)])),
              "nations", Dict([USA |-> usa, UK |-> NationWithGrowth("UK", rate)])) :
         wars \in UNION {[1..n -> WarTemplates] : n \in 0..MaxWars},
         usa \in {NationUSA, DictPut(NationUSA, "internalAffairs", Null)}
                 \cup {NationWithGrowth("USA", r) : r \in GrowthRates},
         rate \in {Rat(0 - 4, 100), Rat(1, 100)} }

EvalInit ==
    /\ global_state \in EvalDocuments
    /\ pending_events = <<>>
    /\ time_step = 0
    /\ pc = "idle"
    /\ user_input = ""
    /\ indices_to_process = <<>>
    /\ current_time = 0
    /\ disk = Null
    /\ next_id = 1
    /\ auto_left = 0
    /\ tick_start = 0
    /\ calls = 0
    /\ event_request = <<>>

\* one call of evaluate_conditions
EvaluateCall ==
    /\ pc = "idle"
    /\ calls < MaxCalls
    /\ \E r \in {evaluate_conditions(global_state, time_step, next_id)} :
           /\ pending_events' = pending_events \o r.events
           /\ next_id' = r.id
           /\ pc' = IF r.raised THEN "crashed" ELSE pc
    /\ calls' = calls + 1
    /\ UNCHANGED <<global_state, time_step, user_input, disk, auto_left, tick_start, execVars, event_request>>

EvalNext == EvaluateCall

SpecEvaluate == EvalInit /\ [][EvalNext]_vars

----------------------------------------------------------------------------
(* Observers used by the properties *)

RamCount == Len(global_state.v["ramifications"].v)
RamAt(gs, i) == gs.v["ramifications"].v[i]
FieldOf(ram, k) == IF k \in DOMAIN ram.v THEN ram.v[k] ELSE Null
StatusIs(gs, i, s) == IsStr(FieldOf(RamAt(gs, i), "status"), s)
Terminal(gs, i) == StatusIs(gs, i, "executed") \/ StatusIs(gs, i, "failed")
ReasonIs(gs, i, msg) == IsStr(FieldOf(RamAt(gs, i), "failureReason"), msg)

\* the Ramification has an executionTime that parses and is not later than now
DueAt(ram, now) ==
    FieldOf(ram, "executionTime").t = "time" /\ FieldOf(ram, "executionTime").v <= now
LaterThan(ram, now) ==
    FieldOf(ram, "executionTime").t = "time" /\ FieldOf(ram, "executionTime").v > now

\* the State Document apart from the ramifications collection
Body(gs) == [k \in (DOMAIN gs.v) \ {"ramifications"} |-> gs.v[k]]

\* the executor is about to visit Ramification Cur
Visiting == pc = "exec_loop" /\ indices_to_process # <<>>
Cur == Head(indices_to_process)
CurRam == RamAt(global_state, Cur)
CurOp(op) == IsStr(FieldOf(CurRam, "operation"), op)
CurKeys == FieldOf(CurRam, "targetPath").v
CurValue == FieldOf(CurRam, "value")
\* ... and it is pending, due and names a path and an operation
VisitingDue ==
    /\ Visiting
    /\ StatusIs(global_state, Cur, "pending")
    /\ DueAt(CurRam, current_time)
    /\ FieldOf(CurRam, "targetPath").t = "path"
    /\ FieldOf(CurRam, "operation").t = "str"

\* the value a path names, read segment by segment; Absent when it names nothing
Absent == [t |-> "absent", v |-> 0]
RECURSIVE At(_, _)
At(node, keys) ==
    IF keys = <<>> THEN node
    ELSE IF node.t = "dict"
         THEN IF Head(keys) \in DOMAIN node.v THEN At(node.v[Head(keys)], Tail(keys)) ELSE Absent
    ELSE IF node.t = "list" /\ Head(keys) \in DOMAIN DigitValue
         THEN IF DigitValue[Head(keys)] < Len(node.v)
              THEN At(node.v[DigitValue[Head(keys)] + 1], Tail(keys)) ELSE Absent
    ELSE Absent

Prefix(keys, n) == SubSeq(keys, 1, n)

----------------------------------------------------------------------------
(* Properties of the Mutation Executor *)

C3_OnlyPendingAndDue ==
    [][ /\ \A i \in 1..RamCount :
              (StatusIs(global_state, i, "pending") /\ LaterThan(RamAt(global_state, i), current_time'))
                 => RamAt(global_state', i) = RamAt(global_state, i)
        /\ \A i \in 1..RamCount :
              Terminal(global_state, i) => RamAt(global_state', i) = RamAt(global_state, i)
        /\ (Visiting /\ ~(StatusIs(global_state, Cur, "pending") /\ ~LaterThan(CurRam, current_time)))
              => global_state' = global_state
      ]_vars

\* C3 witness: a call has returned, one Ramification was executed and one with a later
\* executionTime is still pending
C3_Witness ==
    /\ pc = "idle"
    /\ calls > 0
    /\ \E i, j \in 1..RamCount :
          /\ StatusIs(global_state, i, "executed")
          /\ StatusIs(global_state, j, "pending")
          /\ LaterThan(RamAt(global_state, j), current_time)

Same(a, b) == a.t = b.t /\ a = b
IsSum(r, a, b) == r[2] > 0 /\ r[1] * (a[2] * b[2]) = r[2] * (a[1] * b[2] + b[1] * a[2])
IsDifference(r, a, b) == r[2] > 0 /\ r[1] * (a[2] * b[2]) = r[2] * (a[1] * b[2] - b[1] * a[2])
IsProduct(r, a, b) == r[2] > 0 /\ r[1] * (a[2] * b[2]) = r[2] * (a[1] * b[1])
IsQuotient(r, a, b) == r[2] > 0 /\ r[1] * (a[2] * b[1]) = r[2] * (a[1] * b[2])
IsResult(op, r, a, b) ==
    CASE op = "add" -> IsSum(r, a, b)
      [] op = "subtract" -> IsDifference(r, a, b)
      [] op = "multiply" -> IsProduct(r, a, b)
      [] op = "divide" -> IsQuotient(r, a, b)

\* the document with the value at keys replaced by x and Ramification i marked executed
WithLeafAndExecuted(gs, keys, x, i) ==
    LET d == Replace(gs, keys, x)
    IN  Dict([d.v EXCEPT !["ramifications"] =
                List([@.v EXCEPT ![i] = Dict([@.v EXCEPT !["status"] = Str("executed")])])])

\* the visited Ramification is arithmetic on a number held at keys in a container of kind
\* parentKind, with a numeric value
ArithmeticVisit(ops, parentKind) ==
    /\ VisitingDue
    /\ FieldOf(CurRam, "operation").v \in ops
    /\ At(global_state, Front(CurKeys)).t = parentKind
    /\ At(global_state, CurKeys).t = "num"
    /\ CurValue.t = "num"

\* C5: add, subtract and multiply on a numeric field of a dict replace the field by v+n, v-n,
\* v*n, mark the Ramification executed and change nothing else; 60 subtract 15 gives 45.
C5_DictArithmetic ==
    [][ /\ ArithmeticVisit({"add", "subtract", "multiply"}, "dict") =>
              LET r == At(global_state', CurKeys)
              IN  /\ r.t = "num"
                  /\ IsResult(FieldOf(CurRam, "operation").v, r.v, At(global_state, CurKeys).v, CurValue.v)
                  /\ global_state' = WithLeafAndExecuted(global_state, CurKeys, r, Cur)
        /\ (/\ ArithmeticVisit({"subtract"}, "dict")
            /\ CurKeys = STAB
            /\ At(global_state, STAB).v = <<60, 1>>
            /\ CurValue.v = <<15, 1>>) => At(global_state', STAB).v = <<45, 1>>
      ]_vars

\* C5 witness: stability 60, subtract 15 executed, stability 45
C5_Witness ==
    /\ At(global_state, STAB).t = "num"
    /\ At(global_state, STAB).v = <<45, 1>>
    /\ \E i \in 1..RamCount :
          /\ StatusIs(global_state, i, "executed")
          /\ IsStr(FieldOf(RamAt(global_state, i), "operation"), "subtract")

\* C6: the same arithmetic on an element of a list, selected by a numeric last segment:
\* the element is replaced by the result and the Ramification ends executed.
C6_ListElementArithmetic ==
    [][ (/\ ArithmeticVisit({"add", "subtract", "multiply", "divide"}, "list")
         /\ CurOp("divide") => CurValue.v[1] # 0) =>
              /\ StatusIs(global_state', Cur, "executed")
              /\ At(global_state', CurKeys).t = "num"
              /\ IsResult(FieldOf(CurRam, "operation").v, At(global_state', CurKeys).v,
                          At(global_state, CurKeys).v, CurValue.v)
      ]_vars

\* C7: divide by 0 on a numeric target (a dict field or a list element) ends failed with the
\* divide-by-zero reason, not with a caught exception, and leaves the document as it was.
C7_DivideByZero ==
    [][ (/\ VisitingDue
         /\ CurOp("divide")
         /\ CurValue.t = "num"
         /\ CurValue.v[1] = 0
         /\ At(global_state, CurKeys).t = "num") =>
              /\ StatusIs(global_state', Cur, "failed")
              /\ ReasonIs(global_state', Cur, MsgDivZero)
              /\ Body(global_state') = Body(global_state)
      ]_vars

\* C7 witness: a divide by 0 on stability has failed and stability is still 60
C7_Witness ==
    /\ At(global_state, STAB).t = "num"
    /\ At(global_state, STAB).v = <<60, 1>>
    /\ \E i \in 1..RamCount :
          /\ ReasonIs(global_state, i, MsgDivZero)
          /\ FieldOf(RamAt(global_state, i), "targetPath").v = STAB

\* the path has only non-numeric segments, names nothing yet, and whatever exists along it
\* is a dict
MissingDictPath(gs, keys) ==
    /\ \A n \in 1..Len(keys) : keys[n] \notin DOMAIN DigitValue
    /\ At(gs, keys).t = "absent"
    /\ \A n \in 0..(Len(keys) - 1) : At(gs, Prefix(keys, n)).t \in {"absent", "dict"}

ListWouldBeNeeded(gs, keys, n) ==
    /\ n < Len(keys)
    /\ At(gs, Prefix(keys, n - 1)).t = "dict"
    /\ At(gs, Prefix(keys, n)).t = "absent"
    /\ keys[n + 1] \in DOMAIN DigitValue

Named(item, ram) ==
    LET identifier == FieldOf(ram, "valueIdentifier")
    IN  IF identifier.t = "dict"
        THEN \E k \in DOMAIN identifier.v :
                item.t = "dict" /\ k \in DOMAIN item.v /\ Same(item.v[k], identifier.v[k])
        ELSE Same(item, FieldOf(ram, "value"))

NamedAt(items, ram) == {n \in 1..Len(items) : Named(items[n], ram)}

WithoutIndices(items, drop) ==
    LET F[n \in 0..Len(items)] ==
            IF n = 0 THEN <<>>
            ELSE IF n \in drop THEN F[n - 1] ELSE Append(F[n - 1], items[n])
    IN  F[Len(items)]

\* the visited Ramification is a remove_item on a path that resolves to a list held in a dict
RemoveFromListVisit ==
    /\ VisitingDue
    /\ CurOp("remove_item")
    /\ At(global_state, CurKeys).t = "list"
    /\ At(global_state, Front(CurKeys)).t = "dict"

\* C10 as stated: only the first matching element is removed, the list shrinks by one.
C10_Original ==
    [][ (RemoveFromListVisit /\ NamedAt(At(global_state, CurKeys).v, CurRam) # {}) =>
          LET items == At(global_state, CurKeys).v
              first == CHOOSE n \in NamedAt(items, CurRam) : \A m \in NamedAt(items, CurRam) : n <= m
          IN  /\ At(global_state', CurKeys).t = "list"
              /\ At(global_state', CurKeys).v = WithoutIndices(items, {first})
      ]_vars

\* C10 amended: every matching element is removed and the remaining elements keep their
\* order (the list shrinks by the number of matches, at least one), the Ramification ends
\* executed; when nothing matches it ends failed and the list is unchanged.
C10_RemovesAllMatches ==
    [][ RemoveFromListVisit =>
          LET items == At(global_state, CurKeys).v
          IN  IF NamedAt(items, CurRam) # {}
              THEN /\ At(global_state', CurKeys).t = "list"
                   /\ At(global_state', CurKeys).v = WithoutIndices(items, NamedAt(items, CurRam))
                   /\ StatusIs(global_state', Cur, "executed")
              ELSE /\ StatusIs(global_state', Cur, "failed")
                   /\ ReasonIs(global_state', Cur, MsgRemoveNotFound)
                   /\ Body(global_state') = Body(global_state)
      ]_vars

\* C10 witness: remove_item of the value 10 from scores [10, 20, 10] was executed and
\* scores is [20]
C10_Witness ==
    /\ At(global_state, SCORES).t = "list"
    /\ Len(At(global_state, SCORES).v) = 1
    /\ \E i \in 1..RamCount :
          /\ StatusIs(global_state, i, "executed")
          /\ IsStr(FieldOf(RamAt(global_state, i), "operation"), "remove_item")
          /\ FieldOf(RamAt(global_state, i), "targetPath").v = SCORES

----------------------------------------------------------------------------
(* C2: the place of the executor in one simulation tick *)

\* a tick (one 'next' or one automatic step) is under way
InTick == pc # "idle"
\* the executor of the tick is entered by this step
ExecutorStarts == InTick /\ pc = "execute" /\ pc' = "exec_loop"
\* the executor of the tick returns by this step
ExecutorReturns == InTick /\ pc = "exec_loop" /\ pc' # "exec_loop"
CurrentDate == global_state.v["current_date"]

\* C2 as stated: in one tick the executor runs on the due Ramifications before simulated
\* time is advanced, so while the executor of a tick is running the time and current_date
\* are still those the tick started with
C2_Original ==
    (InTick /\ pc = "exec_loop") => (time_step = tick_start /\ CurrentDate = Time(tick_start))

\* C2, amended: in one tick the time is advanced by the fixed increment and the pending
\* list cleared at the end of run_simulation_step, before the executor is called; the
\* executor then runs with the already advanced current_date as its current time, the
\* time does not change while it runs, and the document is saved right after it returns
C2_AdvanceBeforeExecute ==
    [][ /\ ExecutorStarts =>
             /\ time_step = tick_start + StepDays
             /\ CurrentDate = Time(time_step)
             /\ pending_events = <<>>
             /\ current_time' = time_step
        /\ (InTick /\ pc = "exec_loop") => (time_step' = time_step /\ CurrentDate' = CurrentDate)
        /\ ExecutorReturns => (pc' = "save" /\ time_step = tick_start + StepDays)
        /\ (InTick /\ pc = "save") => disk' = global_state ]_vars

\* the executor of a tick visits a pending Ramification that the tick itself created at
\* the date the tick started with, with the advanced date as its current time
C2_Witness ==
    /\ InTick
    /\ VisitingDue
    /\ FieldOf(CurRam, "executionTime") = Time(tick_start)
    /\ current_time = tick_start + StepDays
    /\ time_step = tick_start + StepDays

----------------------------------------------------------------------------
(* C11: update_item *)

\* the visited Ramification is an update_item
UpdateItemVisit == VisitingDue /\ CurOp("update_item")

\* new is old with the fields of value merged in
MergedInto(old, value, new) ==
    /\ new.t = "dict"
    /\ DOMAIN new.v = (DOMAIN old.v) \cup (DOMAIN value.v)
    /\ \A k \in DOMAIN value.v : new.v[k] = value.v[k]
    /\ \A k \in (DOMAIN old.v) \ (DOMAIN value.v) : new.v[k] = old.v[k]

\* C11: update_item with a single-key valueIdentifier on a list merges the fields of
\* value into the first element whose key equals the identifier value, leaves every other
\* element of the list and the rest of the document unchanged and ends executed; it ends
\* failed, with the document unchanged, when the target is not a list, when no identifier
\* is given, or when no element matches
C11_UpdateItem ==
    [][ UpdateItemVisit =>
          LET target == At(global_state, CurKeys)
              identifier == FieldOf(CurRam, "valueIdentifier")
          IN  IF target.t = "list" /\ identifier.t = "dict" /\ NamedAt(target.v, CurRam) # {}
              THEN LET hits == NamedAt(target.v, CurRam)
                       first == CHOOSE n \in hits : \A m \in hits : n <= m
                       after == At(global_state', CurKeys)
                   IN  /\ StatusIs(global_state', Cur, "executed")
                       /\ after.t = "list"
                       /\ Len(after.v) = Len(target.v)
                       /\ MergedInto(target.v[first], CurValue, after.v[first])
                       /\ \A n \in 1..Len(target.v) : n # first => after.v[n] = target.v[n]
                       /\ Replace(Dict(Body(global_state')), CurKeys, target) = Dict(Body(global_state))
              ELSE /\ StatusIs(global_state', Cur, "failed")
                   /\ Body(global_state') = Body(global_state)
      ]_vars

\* C11 witness: update_item {id: X} with value {status: closed} was executed on items
\* [X, Y, X]: the first X is closed, the second X is still open
C11_Witness ==
    /\ At(global_state, ITEMS).t = "list"
    /\ At(global_state, ITEMS).v[1] = Dict([id |-> Str("X"), status |-> Str("closed")])
    /\ At(global_state, ITEMS).v[3] = Item("X")
    /\ \E i \in 1..RamCount :
          /\ StatusIs(global_state, i, "executed")
          /\ IsStr(FieldOf(RamAt(global_state, i), "operation"), "update_item")

----------------------------------------------------------------------------
(* C12: the pending list and the event log *)

GlobalEvents == global_state.v["globalEvents"].v
IsPrefix(a, b) == Len(a) <= Len(b) /\ SubSeq(b, 1, Len(a)) = a
IsSuffix(a, b) == Len(a) <= Len(b) /\ SubSeq(b, Len(b) - Len(a) + 1, Len(b)) = a

\* C12: every event that is pending when a step merges (after the user override) is
\* appended to globalEvents exactly once, in order, and no other part of
\* run_simulation_step and no command adds to the log or takes from it;
\* from the merge to the end of run_simulation_step the pending events are the last
\* events of the log, so the clear drops only merged events; after the clear the pending
\* list is empty; between steps the pending list only grows by the events queued, so no
\* event is merged twice and no queued event is lost
C12_MergedOnce ==
    [][ /\ pc = "merge" => GlobalEvents' = GlobalEvents \o pending_events
        /\ pc \notin {"merge", "exec_loop"} => GlobalEvents' = GlobalEvents
        /\ pc' \in {"synthesize", "advance", "clear"} => IsSuffix(pending_events', GlobalEvents')
        /\ pc = "clear" => pending_events' = <<>>
        /\ pc' \in {"execute", "exec_loop", "save"} => pending_events' = <<>>
        /\ pc \notin {"override", "clear"} => IsPrefix(pending_events, pending_events')
      ]_vars

\* C12 witness: a step has merged two pending events, one queued by a generate-event
\* request and one by the condition evaluator, and has returned with the pending list empty
C12_Witness ==
    /\ pc = "execute"
    /\ pending_events = <<>>
    /\ Len(GlobalEvents) = 2
    /\ DGet(GlobalEvents[1], "eventId").t = "str"
    /\ DGet(GlobalEvents[2], "eventId").t = "uuid"

----------------------------------------------------------------------------
(* C13: consequence synthesis works on the events of the step *)

NationIds(gs) == DOMAIN gs.v["nations"].v
ImpactsOf(gs, k) == gs.v["nations"].v[k].v["nationwideImpacts"].v
Effects(gs) == gs.v["effects"].v
\* the items appended to a list by a step
Appended(old, new) == {new[i] : i \in (Len(old) + 1)..Len(new)}
EventIds(events) == {DGet(events[i], "eventId") : i \in 1..Len(events)}

\* the records consequence synthesis is creating in this step
SynthesisStep == pc = "synthesize"
NewImpacts ==
    UNION {Appended(ImpactsOf(global_state, k), ImpactsOf(global_state', k)) : k \in NationIds(global_state)}
NewEffects == Appended(Effects(global_state), Effects(global_state'))
NewRamifications == Appended(Ramifications(global_state), Ramifications(global_state'))

\* C13: consequence synthesis creates Impacts, Effects and Ramifications only for the
\* events merged in the same step: every new Impact names a pending event of the step,
\* every new Effect a new Impact and every new Ramification a new Effect, so an event
\* that is in globalEvents from an earlier step gets no new record
C13_OnlyThisStepsEvents ==
    [][ SynthesisStep =>
          /\ \A imp \in NewImpacts : DGet(imp, "originGlobalEventId") \in EventIds(pending_events)
          /\ \A eff \in NewEffects : \E imp \in NewImpacts : DGet(eff, "originImpactId") = DGet(imp, "impactId")
          /\ \A ram \in NewRamifications :
                \E eff \in NewEffects : DGet(ram, "originEffectId") = DGet(eff, "effectId")
          /\ \A ev \in EventIds(GlobalEvents) \ EventIds(pending_events) :
                \A imp \in NewImpacts : DGet(imp, "originGlobalEventId") # ev
      ]_vars

\* C13 witness: the second step of a run has synthesized the consequences of its one
\* event while the log also holds the event of the first step, which has its Impact
C13_Witness ==
    /\ pc = "advance"
    /\ Len(GlobalEvents) = 2
    /\ Len(pending_events) = 1
    /\ Len(ImpactsOf(global_state, "USA")) = 2
    /\ DGet(ImpactsOf(global_state, "USA")[1], "originGlobalEventId") = DGet(GlobalEvents[1], "eventId")
    /\ DGet(ImpactsOf(global_state, "USA")[2], "originGlobalEventId") = DGet(GlobalEvents[2], "eventId")

----------------------------------------------------------------------------
(* C14: Impacts per event and nation *)

\* the nation record k is the one a participant entry resolves to
ResolvesTo(gs, entry, k) == NationKey(gs, entry).found /\ NationKey(gs, entry).key = k
\* the nation k participates in the event
Participates(gs, ev, k) ==
    \E i \in 1..Len(DGet(ev, "participatingNations").v) :
       ResolvesTo(gs, DGet(ev, "participatingNations").v[i], k)
\* how many of the Impacts appended to a nation's list name the event id
NewImpactCount(old, new, event_id) ==
    Cardinality({i \in (Len(old) + 1)..Len(new) : DGet(new[i], "originGlobalEventId") = event_id})

\* C14 as stated: consequence synthesis creates exactly one Impact per (event, nation)
\* pair: for each event of the step and each nation record, the nation's nationwideImpacts
\* gains one Impact with that originGlobalEventId for each pending event of that id the
\* nation participates in and none otherwise, whatever participatingNations looks like
C14_OneImpactPerEventAndNation ==
    [][ SynthesisStep =>
          \A k \in NationIds(global_state) : \A e \in EventIds(pending_events) :
             NewImpactCount(ImpactsOf(global_state, k), ImpactsOf(global_state', k), e)
               = Cardinality({i \in 1..Len(pending_events) :
                                /\ DGet(pending_events[i], "eventId") = e
                                /\ Participates(global_state, pending_events[i], k)})
      ]_vars

----------------------------------------------------------------------------
(* C15: Effects per Impact and hint *)

\* the fixed mapping of hint categories and severities, as the specification gives it
EffectTypeFor(category) ==
    CASE category = Str("Political") -> Str("Political Shift")
      [] category = Str("Economic") -> Str("Economic Change")
      [] category = Str("Social") -> Str("Social Upheaval")
      [] category = Str("Technological") -> Str("Technological Advancement")
      [] category = Str("Military") -> Str("Military Posture Change")
      [] category = Str("Diplomatic") -> Str("Diplomatic Realignment")
      [] category = Str("Environmental") -> Str("Environmental Consequence")
      [] category = Str("Cultural") -> Str("Cultural Trend")
      [] category = Str("Humanitarian") -> Str("Resource Strain")
      [] category = Str("Legal") -> Str("Political Shift")
      [] OTHER -> Str("Other")
SeverityFor(severity) ==
    CASE severity \in {Str("Minimal"), Str("Low"), Str("Moderate"), Str("High"), Str("Severe"), Str("Critical")}
           -> severity
      [] severity = Str("Unprecedented") -> Str("Transformative")
      [] OTHER -> Str("Low")

\* the non-empty hints of an event, in order
NonEmptyHints(ev) == SelectSeq(DGet(ev, "ramifications").v, LAMBDA h : h.t = "dict" /\ DOMAIN h.v # {})
\* the pending event an Impact was made for
EventOf(imp) ==
    pending_events[CHOOSE i \in 1..Len(pending_events) :
                      DGet(pending_events[i], "eventId") = DGet(imp, "originGlobalEventId")]
\* the Effects of a list that name the Impact, in order
EffectsFrom(effects, imp) ==
    SelectSeq(effects, LAMBDA eff : DGet(eff, "originImpactId") = DGet(imp, "impactId"))
\* the nation records apart from their nationwideImpacts
NationsBody(gs) ==
    [k \in NationIds(gs) |-> [f \in (DOMAIN gs.v["nations"].v[k].v) \ {"nationwideImpacts"} |->
                                  gs.v["nations"].v[k].v[f]]]

----------------------------------------------------------------------------
(* C16: a Ramification generation that yields nothing *)

\* the Ramifications of a list that name the Effect
RamificationsFrom(rams, eff) ==
    SelectSeq(rams, LAMBDA ram : DGet(ram, "originEffectId") = DGet(eff, "effectId"))

\* C16 as stated: whatever generate_json_object returns for an Effect, the step is not
\* failed: synthesis returns and the step goes on to advance the time and clear the
\* pending list; an Effect for which nothing usable was returned has no Ramification
\* stored and an empty ramificationIds, and every Impact of the step still has one
\* Effect per non-empty hint
C16_NothingGenerated ==
    [][ SynthesisStep =>
          /\ pc' = "advance"
          /\ \A eff \in NewEffects :
                RamificationsFrom(Ramifications(global_state'), eff) = <<>>
                   => DGet(eff, "ramificationIds") = EmptyList
          /\ \A imp \in NewImpacts :
                Len(EffectsFrom(Effects(global_state'), imp)) = Len(NonEmptyHints(EventOf(imp)))
      ]_vars

----------------------------------------------------------------------------
(* C17: parent and child references *)

\* the ids, in order, that the records of a list carry under a key
IdsOf(records, key) == [i \in 1..Len(records) |-> DGet(records[i], key)]
AllImpacts(gs) == UNION {{ImpactsOf(gs, k)[i] : i \in 1..Len(ImpactsOf(gs, k))} : k \in NationIds(gs)}
InList(x, list) == \E i \in 1..Len(list) : list[i] = x

\* C17: when consequence synthesis has returned the references are consistent: each Impact's
\* effectIds is exactly the ids of the Effects created from it, each Effect's
\* ramificationIds is exactly the ids of the Ramifications created from it (none or one),
\* so every referenced id exists in the global collection, and every Effect's
\* originImpactId and every Ramification's originEffectId names an existing parent
C17_ReferencesConsistent ==
    pc = "advance" =>
       /\ \A imp \in AllImpacts(global_state) :
             DGet(imp, "effectIds") = List(IdsOf(EffectsFrom(Effects(global_state), imp), "effectId"))
       /\ \A i \in 1..Len(Effects(global_state)) :
             LET eff == Effects(global_state)[i]
                 made == RamificationsFrom(Ramifications(global_state), eff)
             IN  /\ DGet(eff, "ramificationIds") = List(IdsOf(made, "ramificationId"))
                 /\ Len(made) <= 1
                 /\ \E imp \in AllImpacts(global_state) : DGet(imp, "impactId") = DGet(eff, "originImpactId")
       /\ \A i \in 1..RamCount :
             InList(DGet(RamAt(global_state, i), "originEffectId"), IdsOf(Effects(global_state), "effectId"))

\* C17 witness: an Impact with two Effects, one with its Ramification and one for which
\* the LLM gave nothing
C17_Witness ==
    /\ pc = "advance"
    /\ \E imp \in AllImpacts(global_state) :
          LET made == EffectsFrom(Effects(global_state), imp)
          IN  /\ Len(made) = 2
              /\ DGet(imp, "effectIds") = List(IdsOf(made, "effectId"))
              /\ DGet(made[1], "ramificationIds") = EmptyList
              /\ Len(DGet(made[2], "ramificationIds").v) = 1

----------------------------------------------------------------------------
(* C18: who changes the State Document *)

\* a dict value apart from some of its keys
Except(d, keys) == [k \in (DOMAIN d.v) \ keys |-> d.v[k]]
\* new is old with items appended to the list under key
OnlyAppended(old, new, key) == IsPrefix(old.v[key].v, new.v[key].v)

\* what the parts of a step other than the executor and the time advance do to the
\* document: condition evaluation, the user override, the clear and the save change
\* nothing, the merge only appends to globalEvents, consequence synthesis only appends to
\* nations[*].nationwideImpacts, effects and ramifications, and the value at the
\* targetPath of a Ramification it stores is as before
EngineFrame ==
    /\ pc \in {"evaluate", "override", "clear", "save"} => global_state' = global_state
    /\ (pc = "idle" /\ time_step' = time_step) => global_state' = global_state
    /\ pc = "merge" =>
          /\ Except(global_state', {"globalEvents"}) = Except(global_state, {"globalEvents"})
          /\ OnlyAppended(global_state, global_state', "globalEvents")
    /\ SynthesisStep =>
          /\ Except(global_state', {"nations", "effects", "ramifications"})
               = Except(global_state, {"nations", "effects", "ramifications"})
          /\ OnlyAppended(global_state, global_state', "effects")
          /\ OnlyAppended(global_state, global_state', "ramifications")
          /\ NationsBody(global_state') = NationsBody(global_state)
          /\ \A k \in NationIds(global_state) :
                IsPrefix(ImpactsOf(global_state, k), ImpactsOf(global_state', k))
          /\ \A ram \in NewRamifications :
                At(global_state', DGet(ram, "targetPath").v) = At(global_state, DGet(ram, "targetPath").v)

\* C18 as stated: only the Mutation Executor rewrites existing values of the State
\* Document: every other step keeps to EngineFrame and rewrites no existing value
C18_Original ==
    [][ /\ EngineFrame
        /\ pc # "exec_loop" =>
              Except(global_state', {"globalEvents", "nations", "effects", "ramifications"})
                = Except(global_state, {"globalEvents", "nations", "effects", "ramifications"})
      ]_vars

\* C18, amended: besides the Mutation Executor, the time advance of a step and the jump
\* command rewrite one existing value, current_date; every other step keeps to
\* EngineFrame and rewrites no existing value
C18_OnlyExecutorAndClock ==
    [][ /\ EngineFrame
        /\ pc # "exec_loop" =>
              Except(global_state', {"globalEvents", "nations", "effects", "ramifications", "current_date"})
                = Except(global_state, {"globalEvents", "nations", "effects", "ramifications", "current_date"})
        /\ (pc # "exec_loop" /\ CurrentDate' # CurrentDate) =>
              /\ pc = "advance" \/ (pc = "idle" /\ pc' = "idle")
              /\ Except(global_state', {"current_date"}) = Except(global_state, {"current_date"})
              /\ CurrentDate' = Time(time_step')
      ]_vars

\* C18 witness: synthesis has stored a pending Ramification on stability, an Effect and an
\* Impact next to the records of an earlier step, and stability is still 60
C18_Witness ==
    /\ pc = "advance"
    /\ Len(Effects(global_state)) > 2
    /\ Len(ImpactsOf(global_state, "USA")) = 2
    /\ At(global_state, STAB) = Num(60)
    /\ \E i \in 1..RamCount :
          /\ StatusIs(global_state, i, "pending")
          /\ DGet(RamAt(global_state, i), "targetPath") = Path(STAB)

----------------------------------------------------------------------------
(* C19: merged events *)

\* C19 as stated: once a Global Event has been appended to globalEvents it stays in the
\* log with every field unchanged, under every later step, generate-event request, jump
\* and executor run
C19_MergedEventsImmutable ==
    [][ IsPrefix(GlobalEvents, GlobalEvents') ]_vars

----------------------------------------------------------------------------
(* C20: one event per satisfied predicate *)

ActiveWars == At(global_state, <<"conflicts", "activeWars">>).v
\* the war is ongoing with more than 10000 military casualties
WarTriggers(war) ==
    /\ At(war, <<"status">>) = Str("Ongoing")
    /\ At(war, <<"casualties", "military">>).t = "num"
    /\ At(war, <<"casualties", "military">>).v[1] > 10000 * At(war, <<"casualties", "military">>).v[2]
\* the nation's gdpGrowthRate is below -0.03
NationTriggers(k) ==
    LET rate == At(global_state, <<"nations", k, "internalAffairs", "economicIndicators", "gdpGrowthRate">>)
    IN  rate.t = "num" /\ rate.v[1] * 100 < (0 - 3) * rate.v[2]
TriggeringWars == SelectSeq(ActiveWars, WarTriggers)
TriggeringNations == {k \in NationIds(global_state) : NationTriggers(k)}
\* sideA followed by sideB
Belligerents(war) ==
    (IF At(war, <<"belligerents", "sideA">>).t = "list" THEN At(war, <<"belligerents", "sideA">>).v ELSE <<>>)
    \o (IF At(war, <<"belligerents", "sideB">>).t = "list" THEN At(war, <<"belligerents", "sideB">>).v ELSE <<>>)
\* the events a step appends to the pending list
Queued == SubSeq(pending_events', Len(pending_events) + 1, Len(pending_events'))

\* C20: evaluate_conditions appends exactly one new Global Event per satisfied predicate
\* and none otherwise: first one Conflict event for each active war with status Ongoing and
\* military casualties > 10000, in the order of the wars, with participatingNations =
\* sideA followed by sideB, then one Economic Event for each nation with gdpGrowthRate <
\* -0.03, with participatingNations = that nation's id; every new event has a fresh
\* eventId and at least one hint, and the State Document is not changed (for a call that
\* returns)
C20_OneEventPerPredicate ==
    [][ pc' # "crashed" =>
        /\ IsPrefix(pending_events, pending_events')
        /\ global_state' = global_state
        /\ Len(Queued) = Len(TriggeringWars) + Cardinality(TriggeringNations)
        /\ \A n \in 1..Len(TriggeringWars) :
              /\ DGet(Queued[n], "eventType") = Str("Conflict")
              /\ DGet(Queued[n], "participatingNations") = List(Belligerents(TriggeringWars[n]))
        /\ \A k \in TriggeringNations :
              \E n \in (Len(TriggeringWars) + 1)..Len(Queued) :
                 /\ DGet(Queued[n], "eventType") = Str("Economic Event")
                 /\ DGet(Queued[n], "participatingNations") = List(<<Str(k)>>)
        /\ \A n \in 1..Len(Queued) :
              /\ Len(DGet(Queued[n], "ramifications").v) >= 1
              /\ \A m \in 1..Len(pending_events') :
                    DGet(pending_events'[m], "eventId") = DGet(Queued[n], "eventId")
                       => m = Len(pending_events) + n
      ]_vars

\* C20 witness: one call on two ongoing wars, one with 10001 and one with exactly 10000
\* casualties, and two nations, one at -5% and one at +1%, has queued one Conflict event
\* and one Economic Event
C20_Witness ==
    /\ calls = 1
    /\ Len(ActiveWars) = 2
    /\ At(ActiveWars[1], <<"casualties", "military">>) = Num(10001)
    /\ At(ActiveWars[2], <<"casualties", "military">>) = Num(10000)
    /\ At(ActiveWars[2], <<"status">>) = Str("Ongoing")
    /\ TriggeringNations = {"USA"}
    /\ Len(pending_events) = 2
    /\ DGet(pending_events[1], "eventType") = Str("Conflict")
    /\ DGet(pending_events[2], "eventType") = Str("Economic Event")

----------------------------------------------------------------------------
(* C21: the scan is total *)

\* C21: evaluate_conditions never raises, whatever the shape of the scanned records: a
\* record with a missing or wrongly-typed field counts as condition not met, and the
\* remaining records and domains are still scanned, so every nation whose gdpGrowthRate is
\* below -0.03 gets its Economic Event
C21_ScanIsTotal ==
    [][ /\ pc' # "crashed"
        /\ \A k \in TriggeringNations :
              \E n \in 1..Len(Queued) :
                 DGet(Queued[n], "participatingNations") = List(<<Str(k)>>)
      ]_vars

----------------------------------------------------------------------------
(* C22: what the merge does with the pending events *)

ConflictShaped(ev) == DGet(ev, "eventType") = Str("Conflict")
MergeStep == pc = "merge"

----------------------------------------------------------------------------
(* C23: the user override *)

\* the step's input contains "prevent war" in some letter case
AsksToPreventWar == user_input \in {"prevent war", "Prevent War", "please prevent war now"}
NoConflictPending == \A i \in 1..Len(pending_events) : ~ConflictShaped(pending_events[i])

\* C23: when the step's user input contains "prevent war" (in any letter case), every
\* pending event whose eventType is Conflict, produced by the evaluator in this step or
\* queued earlier by generate_event_from_prompt, is removed before the merge and the other
\* pending events are kept in their order; so in that step no Conflict event is merged and
\* every new Impact, Effect and Ramification comes from an event that is not a Conflict
C23_PreventWar ==
    [][ AsksToPreventWar =>
          /\ pc = "override" =>
                pending_events' = SelectSeq(pending_events, LAMBDA ev : ~ConflictShaped(ev))
          /\ pc \in {"merge", "synthesize"} => NoConflictPending
          /\ MergeStep => GlobalEvents' = GlobalEvents \o pending_events
          /\ SynthesisStep =>
                /\ \A imp \in NewImpacts : DGet(imp, "originGlobalEventId") \in EventIds(pending_events)
                /\ \A eff \in NewEffects :
                      \E imp \in NewImpacts : DGet(eff, "originImpactId") = DGet(imp, "impactId")
                /\ \A ram \in NewRamifications :
                      \E eff \in NewEffects : DGet(ram, "originEffectId") = DGet(eff, "effectId")
      ]_vars

\* C23 witness: a step with the input "Prevent War" on a document with a war that
\* triggers, and with a queued event of another type, has merged that one event: the log
\* holds no Conflict event
C23_Witness ==
    /\ pc = "synthesize"
    /\ user_input = "Prevent War"
    /\ Len(ActiveWars) = 1
    /\ WarTriggers(ActiveWars[1])
    /\ Len(pending_events) = 1
    /\ Len(GlobalEvents) = 1
    /\ \A i \in 1..Len(GlobalEvents) : ~ConflictShaped(GlobalEvents[i])

----------------------------------------------------------------------------
(* C24: what a generate-event request queues *)

\* the step is a generate-event request
GenerateStep == pc = "idle" /\ event_request' # <<>>
\* the request got as far as the generated object
Generated == Len(event_request') = 2
ValidEvent(obj) == obj.t = "dict" /\ {"eventId", "eventType"} \subseteq DOMAIN obj.v
\* obj with participatingNations and ramifications set to [] when absent
Defaulted(obj) ==
    Dict([k \in (DOMAIN obj.v) \cup {"participatingNations", "ramifications"} |->
             IF k \in DOMAIN obj.v THEN obj.v[k] ELSE EmptyList])

\* C24: generate_event_from_prompt appends at most one event to the pending list per call:
\* exactly one, with participatingNations and ramifications defaulted to [] when absent,
\* when the generated result is an object containing eventId and eventType, and none
\* otherwise; the call changes no part of the State Document, and the queued event stays
\* in the pending list until the merge of the next simulation step appends it to
\* globalEvents
C24_AtMostOneEvent ==
    [][ /\ GenerateStep =>
              /\ global_state' = global_state
              /\ pending_events' =
                    IF Generated /\ ValidEvent(event_request'[2])
                    THEN Append(pending_events, Defaulted(event_request'[2]))
                    ELSE pending_events
        /\ pc \in {"idle", "evaluate"} => IsPrefix(pending_events, pending_events')
        /\ pc = "override" => pending_events' = pending_events
        /\ MergeStep => GlobalEvents' = GlobalEvents \o pending_events
      ]_vars

\* C24 witness: a request whose generated object has eventId and eventType but neither
\* participatingNations nor ramifications has queued the event with both set to []
C24_Witness ==
    /\ pc = "idle"
    /\ Len(event_request) = 2
    /\ event_request[2].t = "dict"
    /\ DOMAIN event_request[2].v = {"eventId", "eventType"}
    /\ Len(pending_events) = 1
    /\ pending_events[1] = Defaulted(event_request[2])
    /\ DGet(pending_events[1], "participatingNations") = EmptyList

----------------------------------------------------------------------------
(* C25: a generate-event request whose LLM requests fail *)

ExtractionFailed == event_request'[1] = Null
GenerationFailed == Generated /\ event_request'[2] = Null

\* C25: if entity extraction fails after its retries, or event generation fails after its
\* retries, generate_event_from_prompt produces no event: the pending list is left
\* unchanged and no exception is raised past the call
C25_FailureGivesNoEvent ==
    [][ GenerateStep /\ (ExtractionFailed \/ GenerationFailed) =>
           /\ pending_events' = pending_events
           /\ pc' # "crashed"
      ]_vars

----------------------------------------------------------------------------
(* C26: the jump command and the Ramifications it passes over *)

\* the step is a jump to another date
JumpStep == pc = "idle" /\ pc' = "idle" /\ time_step' # time_step
\* the jump sets the date and leaves the rest of the document and the pending list alone
JumpSetsDateOnly ==
    JumpStep =>
       /\ Except(global_state', {"current_date"}) = Except(global_state, {"current_date"})
       /\ CurrentDate' = Time(time_step')
       /\ pending_events' = pending_events
\* Ramification i is pending with an executionTime before the day the running step began:
\* a jump has passed over it
PassedOver(i) ==
    /\ InTick
    /\ StatusIs(global_state, i, "pending")
    /\ DueAt(RamAt(global_state, i), tick_start - 1)

----------------------------------------------------------------------------
(* C27: the statuses of a Ramification and the reason of a failure *)

SupportedOperations == {"set", "add", "subtract", "multiply", "divide", "remove_item", "update_item"}

\* the texts the executor writes to failureReason, by cause
FailureReasons ==
    {MsgBadTime, MsgMissing, MsgSet, MsgAdd, MsgSubtract, MsgMultiply, MsgDivZero, MsgDivide,
     MsgRemoveIndex, MsgRemoveNotFound, MsgRemoveNotList, MsgUpdateNotList, MsgUpdateNoId,
     MsgUpdateNotFound, MsgUnsupported, MsgInvalidPath, MsgTypeError}

StatusAllowed(gs, i) ==
    StatusIs(gs, i, "pending") \/ StatusIs(gs, i, "executed") \/ StatusIs(gs, i, "failed")

HasReason(gs, i) ==
    /\ FieldOf(RamAt(gs, i), "failureReason").t = "str"
    /\ FieldOf(RamAt(gs, i), "failureReason").v # ""
    /\ FieldOf(RamAt(gs, i), "failureReason").v \in FailureReasons

\* this step is the executor's visit of Ramification i, which is pending, due and names one
\* of the seven operations, and the document apart from the Ramifications is afterwards
\* what that operation makes of it
AppliedNow(i) ==
    /\ VisitingDue
    /\ Cur = i
    /\ FieldOf(CurRam, "operation").v \in SupportedOperations
    /\ \E r \in {apply_operation(global_state, CurKeys, FieldOf(CurRam, "operation").v,
                                 CurValue, FieldOf(CurRam, "valueIdentifier"))} :
          r.success /\ Body(global_state') = Body(r.gs)

\* this step is the executor's visit of Ramification i and the reason written names what
\* was wrong with it
FailedNow(i) ==
    /\ Visiting
    /\ Cur = i
    /\ HasReason(global_state', i)
    /\ ReasonIs(global_state', i, MsgBadTime) <=> FieldOf(CurRam, "executionTime").t # "time"
    /\ ReasonIs(global_state', i, MsgDivZero) => CurOp("divide") /\ CurValue = Num(0)
    /\ ReasonIs(global_state', i, MsgUnsupported) =>
          FieldOf(CurRam, "operation").v \notin SupportedOperations
    /\ ReasonIs(global_state', i, MsgInvalidPath) => At(global_state, CurKeys) = Absent

\* C27: in every reachable state each Ramification's status is pending, executed or
\* failed, and every failed Ramification carries a non-empty failureReason; a Ramification
\* becomes failed only in the executor's visit of it, with a reason that names the cause,
\* and becomes executed only in the executor's visit of it, in which its operation is
\* applied to the document
C27_StatusAndReason ==
    /\ [](\A i \in 1..RamCount :
             /\ StatusAllowed(global_state, i)
             /\ StatusIs(global_state, i, "failed") => HasReason(global_state, i))
    /\ [][ \A i \in 1..RamCount :
             /\ (~StatusIs(global_state, i, "executed") /\ StatusIs(global_state', i, "executed"))
                   => AppliedNow(i)
             /\ (~StatusIs(global_state, i, "failed") /\ StatusIs(global_state', i, "failed"))
                   => FailedNow(i)
         ]_vars

\* C27 witness: after one call one Ramification is failed with the divide-by-zero reason
\* and the other is executed with its subtraction applied
C27_Witness ==
    /\ pc = "idle"
    /\ calls = 1
    /\ \E i, j \in 1..RamCount :
          /\ StatusIs(global_state, i, "failed")
          /\ ReasonIs(global_state, i, MsgDivZero)
          /\ StatusIs(global_state, j, "executed")
          /\ IsStr(FieldOf(RamAt(global_state, j), "operation"), "subtract")
          /\ At(global_state, STAB) = Num(45)

----------------------------------------------------------------------------
(* C28: add on a list *)

\* the executor is about to visit a due add Ramification whose targetPath names a list
AddOnList ==
    /\ VisitingDue
    /\ CurOp("add")
    /\ At(global_state, CurKeys).t = "list"

\* C28: a due add Ramification whose targetPath resolves to a list appends value as the
\* last element of that list, whatever the type of value: the list grows by exactly one
\* element, the earlier elements are unchanged, and the Ramification ends executed
C28_AddAppends ==
    [][ AddOnList =>
           /\ StatusIs(global_state', Cur, "executed")
           /\ At(global_state', CurKeys) = List(Append(At(global_state, CurKeys).v, CurValue))
      ]_vars

----------------------------------------------------------------------------
(* C29: the top-level collections *)

HasCollection(gs, k, type) == k \in DOMAIN gs.v /\ gs.v[k].t = type

\* C29: after the engines are constructed (also from the default document of a missing
\* state file) and after any sequence of steps, generate-event requests, jumps and executed
\* Ramifications, the State Document contains nations (a map), globalEvents, effects and
\* ramifications (lists) and conflicts (a map with activeWars)
C29_CollectionsPresent ==
    /\ HasCollection(global_state, "nations", "dict")
    /\ HasCollection(global_state, "globalEvents", "list")
    /\ HasCollection(global_state, "effects", "list")
    /\ HasCollection(global_state, "ramifications", "list")
    /\ HasCollection(global_state, "conflicts", "dict")
    /\ HasCollection(global_state.v["conflicts"], "activeWars", "list")

----------------------------------------------------------------------------
(* C30: one tick on the document with the war *)

\* the first command is a simulation step and the document is the one with nation USA at
\* stability 60 and the war (Ongoing, 12000 military casualties, USA on side A)
FirstTick == calls = 1 /\ tick_start = 0 /\ disk = Null
WarScenario ==
    /\ FirstTick
    /\ DGet(global_state, "conflicts") = Dict([activeWars |-> List(<<War>>)])
    /\ DOMAIN global_state.v["nations"].v = {"USA"}

\* the event log holds one event, of type Conflict, made from the war
OneConflictEvent(gs) ==
    /\ Len(gs.v["globalEvents"].v) = 1
    /\ DGet(gs.v["globalEvents"].v[1], "parentEventId") = DGet(War, "eventId")

\* the tick of the scenario, from the merge on (this tick only can have put the war's event
\* in the log)
WarTick == FirstTick /\ OneConflictEvent(global_state)

\* a change the LLM returned for a field of USA: the stability, less 15
ValidChange(ram) ==
    /\ DGet(ram, "targetPath") = Path(STAB)
    /\ IsStr(DGet(ram, "operation"), "subtract")
    /\ DGet(ram, "value") = Num(15)

\* C30: from a document with nation USA at stability 60 and one active war with USA as
\* belligerent, 12000 military casualties and status Ongoing, one simulation tick puts
\* exactly one event, of type Conflict, in the log; when consequence synthesis has returned
\* USA has exactly one Nationwide Impact, an Effect has type Military Posture Change, and a
\* valid change the LLM returned for the stability of USA is a pending Ramification; when
\* the executor call of the tick has returned that Ramification is executed and the
\* stability differs from 60
C30_EndToEnd ==
    /\ [][ (WarScenario /\ pc = "merge") =>
              /\ OneConflictEvent(global_state')
              /\ IsStr(DGet(global_state'.v["globalEvents"].v[1], "eventType"), "Conflict") ]_vars
    /\ [](WarTick /\ pc \in {"advance", "clear", "execute"} =>
              /\ Len(ImpactsOf(global_state, "USA")) = 1
              /\ DGet(ImpactsOf(global_state, "USA")[1], "originGlobalEventId")
                    = DGet(GlobalEvents[1], "eventId")
              /\ \E i \in 1..Len(Effects(global_state)) :
                    IsStr(DGet(Effects(global_state)[i], "effectType"), "Military Posture Change")
              /\ \A i \in 1..RamCount : StatusIs(global_state, i, "pending")
              /\ At(global_state, STAB) = Num(60))
    /\ [](WarTick /\ pc = "save" =>
              \A i \in 1..RamCount :
                 ValidChange(RamAt(global_state, i)) =>
                    /\ StatusIs(global_state, i, "executed")
                    /\ At(global_state, STAB) # Num(60))

\* C30 witness: the tick is over with one Conflict event, one Impact in USA, the Military
\* Posture Change Effect and its Ramification executed: the stability is 45
C30_Witness ==
    /\ WarTick
    /\ pc = "save"
    /\ IsStr(DGet(GlobalEvents[1], "eventType"), "Conflict")
    /\ Len(ImpactsOf(global_state, "USA")) = 1
    /\ RamCount = 1
    /\ ValidChange(RamAt(global_state, 1))
    /\ \E i \in 1..Len(Effects(global_state)) :
          /\ IsStr(DGet(Effects(global_state)[i], "effectType"), "Military Posture Change")
          /\ DGet(Effects(global_state)[i], "ramificationIds")
                = List(<<DGet(RamAt(global_state, 1), "ramificationId")>>)
    /\ StatusIs(global_state, 1, "executed")
    /\ At(global_state, STAB) = Num(45)

----------------------------------------------------------------------------
(* C31: when the document is written to disk *)

\* this step writes the state file
WritesFile == disk' # disk

\* the step that is being saved is complete: its events are merged and cleared, the time is
\* advanced by the increment, and the executor call at the new date has returned
StepComplete ==
    /\ pc = "save"
    /\ pending_events = <<>>
    /\ time_step = tick_start + StepDays
    /\ CurrentDate = Time(time_step)
    /\ current_time = time_step
    /\ indices_to_process = <<>>

\* C31 as stated: the State Document is written to disk only after a simulation step has
\* completed normally (merge, synthesis, mutation execution and time advance finished); no
\* other command and no other point of a step writes the file
C31_Original ==
    [][ WritesFile => (StepComplete /\ disk' = global_state) ]_vars

\* C31 amended: the file is written in two places only: when a simulation step has
\* completed normally, and by the jump command, which writes the document with the new
\* date; no other command and no other point of a step writes it, and a step that has
\* ended with an exception writes nothing
C31_WrittenAfterStepOrJump ==
    [][ /\ WritesFile =>
              \/ StepComplete /\ disk' = global_state
              \/ JumpStep /\ disk' = global_state' /\ CurrentDate' = Time(time_step')
        /\ pc' = "crashed" => disk' = disk
      ]_vars

\* C31 witness: the file on disk is the document of a completed step, with the event of
\* that step in the log and the date advanced
C31_Witness ==
    /\ pc = "idle"
    /\ disk # Null
    /\ disk = global_state
    /\ CurrentDate = Time(StepDays)
    /\ Len(GlobalEvents) = 1

----------------------------------------------------------------------------
(* C32: what a failed Ramification leaves behind *)

\* the executor's visit of Ramification Cur ends with Cur failed
EndsFailed ==
    /\ Visiting
    /\ ~StatusIs(global_state, Cur, "failed")
    /\ StatusIs(global_state', Cur, "failed")

\* C32: whenever a Ramification ends failed the State Document is otherwise exactly as it
\* was before the attempt: only the status and the failureReason of that Ramification
\* change, no intermediate container has been created and no part of the operation has
\* been applied, for every operation and every targetPath
C32_FailureChangesNothing ==
    [][ EndsFailed =>
           /\ Body(global_state') = Body(global_state)
           /\ RamCount' = RamCount
           /\ \A i \in 1..RamCount :
                 Except(RamAt(global_state', i), IF i = Cur THEN {"status", "failureReason"} ELSE {})
                    = Except(RamAt(global_state, i), IF i = Cur THEN {"status", "failureReason"} ELSE {})
      ]_vars

----------------------------------------------------------------------------
(* EventEngine.__init__ on a loaded document *)

\* _validate_and_prepare_state. Lines 254-260: every missing required key is initialised,
\* with [] for the keys that end with "s" and those named in line 257, with {} for the
\* others. Lines 263-279: a nations list becomes a dict keyed by nationId, or by name when
\* the id is missing or empty (a later record replaces an earlier one with the same key);
\* a record that is no object raises inside the try and the nations are reset to {}.
\* Lines 282-289: every nation record gets a nationwideImpacts list. Lines 292-300: the
\* four conflict lists are added to a conflicts object; anything else is replaced by an
\* object with the four empty lists.
validate_and_prepare_state(gs) ==
    LET required_top_level_keys ==
            {"current_date", "nations", "globalEvents", "effects", "ramifications", "conflicts",
             "globalEconomy", "globalSentiment", "globalTrade", "notableCharacters",
             "organizations", "strategicInterests"}
        list_default == required_top_level_keys \ {"current_date", "globalEconomy"}
        with_keys == Dict([k \in (DOMAIN gs.v) \cup required_top_level_keys |->
                             IF k \in DOMAIN gs.v THEN gs.v[k]
                             ELSE IF k \in list_default THEN EmptyList ELSE EmptyDict])
        nation_key(n) == IF Truthy(DGet(n, "nationId")) THEN DGet(n, "nationId") ELSE DGet(n, "name")
        nations_dict(records) ==
            LET F[i \in 0..Len(records)] ==
                    IF i = 0 THEN EmptyDict
                    ELSE IF Truthy(nation_key(records[i]))
                         THEN DictPut(F[i - 1], nation_key(records[i]).v, records[i])
                         ELSE F[i - 1]
            IN  F[Len(records)]
        converted(nations_data) ==
            IF nations_data.t # "list" THEN nations_data
            ELSE IF \E i \in 1..Len(nations_data.v) : nations_data.v[i].t # "dict" THEN EmptyDict
            ELSE nations_dict(nations_data.v)
        with_impacts(nations_data) ==
            IF nations_data.t # "dict" THEN nations_data
            ELSE Dict([k \in DOMAIN nations_data.v |->
                         IF nations_data.v[k].t = "dict" /\ "nationwideImpacts" \notin DOMAIN nations_data.v[k].v
                         THEN DictPut(nations_data.v[k], "nationwideImpacts", EmptyList)
                         ELSE nations_data.v[k]])
        conflict_lists == {"activeWars", "borderSkirmishes", "internalUnrest", "proxyWars"}
        with_lists(conflicts_data) ==
            Dict([k \in (IF conflicts_data.t = "dict" THEN DOMAIN conflicts_data.v ELSE {})
                        \cup conflict_lists |->
                    IF conflicts_data.t = "dict" /\ k \in DOMAIN conflicts_data.v
                    THEN conflicts_data.v[k] ELSE EmptyList])
    IN  DictPut(DictPut(with_keys, "nations", with_impacts(converted(with_keys.v["nations"]))),
                "conflicts", with_lists(with_keys.v["conflicts"]))

\* lines 198-207: the document is prepared, then the time_step is read from current_date
\* with datetime.strptime(global_state["current_date"], "%Y-%m-%d"): a date string
\* parses, another string raises ValueError, anything that is no string raises TypeError.
\* KeyError and ValueError fall back to the system date now; any other exception leaves the
\* constructor
EventEngine_init(gs, now) ==
    LET prepared == validate_and_prepare_state(gs)
        outcome == IF "current_date" \notin DOMAIN prepared.v THEN "KeyError"
                   ELSE IF prepared.v["current_date"].t = "time" THEN "parsed"
                   ELSE IF prepared.v["current_date"].t = "str" THEN "ValueError"
                   ELSE "TypeError"
    IN  CASE outcome = "parsed" ->
                [gs |-> prepared, time_step |-> prepared.v["current_date"].v, raised |-> FALSE]
          [] outcome \in {"KeyError", "ValueError"} ->
                [gs |-> DictPut(prepared, "current_date", Time(now)), time_step |-> now,
                 raised |-> FALSE]
          [] OTHER ->
                [gs |-> prepared, time_step |-> 0, raised |-> TRUE]

\* the documents a state file may hold, by the values under the keys the constructor looks
\* at; Absent stands for a key the file does not have
LoadedDocuments ==
    LET dates == {Absent, Time(0), Str("soon"), Null}
        nations ==
            {Absent, EmptyList, EmptyDict,
             List(<<Dict([nationId |-> Str("USA"), name |-> Str("United States")]),
                    Dict([name |-> Str("USSR")]), Dict([capital |-> Str("Bern")])>>),
             List(<<Dict([nationId |-> Str("USA")]), Num(5)>>),
             Dict([USA |-> Dict([nationId |-> Str("USA")])])}
        conflicts == {Absent, EmptyList, Dict([activeWars |-> List(<<War>>)])}
        effects == {Absent, EmptyList}
        document(fields) == Dict([k \in {j \in DOMAIN fields : fields[j] # Absent} |-> fields[k]])
    IN  { document([current_date |-> d, nations |-> n, conflicts |-> c, effects |-> e]) :
             d \in dates, n \in nations, c \in conflicts, e \in effects }

\* the days datetime.now() may give
SystemDays == {7, 8}

ConstructInit ==
    /\ global_state \in LoadedDocuments
    /\ pending_events = <<>>
    /\ time_step = 0
    /\ pc = "construct"
    /\ user_input = ""
    /\ indices_to_process = <<>>
    /\ current_time = 0
    /\ disk = Null
    /\ next_id = 1
    /\ auto_left = 0
    /\ tick_start = 0
    /\ calls = 0
    /\ event_request = <<>>

\* TimeEngine.__init__ line 108: EventEngine(self.global_state)
Construct ==
    /\ pc = "construct"
    /\ \E now \in SystemDays :
          \E r \in {EventEngine_init(global_state, now)} :
              /\ global_state' = r.gs
              /\ time_step' = r.time_step
              /\ pc' = IF r.raised THEN "crashed" ELSE "idle"
    /\ UNCHANGED <<pending_events, user_input, indices_to_process, current_time, disk, next_id,
                   auto_left, tick_start, calls, event_request>>

SpecConstruct == ConstructInit /\ [][Construct]_vars

----------------------------------------------------------------------------
(* C33: the constructor and the current_date *)

\* the loaded document has no current_date, or one that is no date in the form YYYY-MM-DD
BadDate(gs) == ~HasKey(gs, "current_date") \/ gs.v["current_date"].t # "time"

\* C33: constructing EventEngine on a state whose current_date is missing or does not
\* parse as YYYY-MM-DD does not raise: the engine takes the system date as its time_step
\* and writes that date to current_date
C33_DateFallback ==
    [][ (pc = "construct" /\ BadDate(global_state)) =>
           /\ pc' = "idle"
           /\ time_step' \in SystemDays
           /\ CurrentDate' = Time(time_step')
      ]_vars

----------------------------------------------------------------------------
(* C34: a new Ramification is due in the step that created it *)

\* Ramification i carries the simulated time at which the running step began
FromThisStep(i) == FieldOf(RamAt(global_state, i), "executionTime") = Time(tick_start)

\* C34: every Ramification created by consequence synthesis is stored with status pending
\* and executionTime equal to the simulated time of the step that creates it (the time
\* before the advance); the executor call of the same TimeEngine step finds it due, so
\* when the step is about to be saved no Ramification created in it is still pending
C34_DueInSameStep ==
    /\ [][ SynthesisStep =>
              \A ram \in NewRamifications :
                 /\ IsStr(DGet(ram, "status"), "pending")
                 /\ DGet(ram, "executionTime") = Time(time_step)
                 /\ time_step = tick_start ]_vars
    /\ [](pc = "save" =>
              /\ time_step = tick_start + StepDays
              /\ \A i \in 1..RamCount : FromThisStep(i) => Terminal(global_state, i))

\* C34 witness: a step that began on day 0 is about to be saved with two Ramifications it
\* created, one executed and one failed
C34_Witness ==
    /\ pc = "save"
    /\ tick_start = 0
    /\ RamCount = 2
    /\ FromThisStep(1) /\ FromThisStep(2)
    /\ StatusIs(global_state, 1, "executed")
    /\ StatusIs(global_state, 2, "failed")

----------------------------------------------------------------------------
(* C35: the operation of a stored Ramification *)

\* C35: every Ramification the Consequence Synthesizer stores in the ramifications
\* collection has an operation of the enum {set, add, subtract, multiply, divide,
\* remove_item, update_item}; an LLM result with any other operator string creates no
\* Ramification
C35_OperationInEnum ==
    [][ SynthesisStep =>
           \A ram \in NewRamifications :
              /\ DGet(ram, "operation").t = "str"
              /\ DGet(ram, "operation").v \in SupportedOperations
      ]_vars

----------------------------------------------------------------------------
(* C36: the order of application within one call *)

\* Ramification i is an executed arithmetic change of the stability by 15
StabilityChange(i) ==
    /\ StatusIs(global_state, i, "executed")
    /\ FieldOf(RamAt(global_state, i), "targetPath") = Path(STAB)
    /\ FieldOf(RamAt(global_state, i), "operation").v \in {"add", "subtract", "multiply", "divide"}
    /\ FieldOf(RamAt(global_state, i), "value") = Num(15)
OperationOf(i) == FieldOf(RamAt(global_state, i), "operation").v

\* what one of the four operations with 15 makes of the initial stability 60
FirstResults == {<<75, 1>>, <<45, 1>>, <<900, 1>>, <<4, 1>>}

\* C36: within one execute_pending_ramifications call the due Ramifications are applied
\* in the order in which they appear in the ramifications collection, not in
\* executionTime order: the indices are visited in ascending order, and after one call
\* that executed two Ramifications on the same targetPath the value is the result of
\* applying the earlier-listed one first
C36_ListOrder ==
    /\ [][ Visiting => \A k \in 2..Len(indices_to_process) : Cur < indices_to_process[k] ]_vars
    /\ []((pc = "idle" /\ calls = 1 /\ RamCount = 2 /\ StabilityChange(1) /\ StabilityChange(2)) =>
             \E mid \in FirstResults :
                /\ IsResult(OperationOf(1), mid, <<60, 1>>, <<15, 1>>)
                /\ IsResult(OperationOf(2), At(global_state, STAB).v, mid, <<15, 1>>))

\* C36 witness: one call has executed an addition scheduled for day 2 that is listed first
\* and a multiplication scheduled for day 1 that is listed second: (60 + 15) * 15
C36_Witness ==
    /\ pc = "idle"
    /\ calls = 1
    /\ RamCount = 2
    /\ StabilityChange(1) /\ OperationOf(1) = "add"
    /\ FieldOf(RamAt(global_state, 1), "executionTime") = Time(2)
    /\ StabilityChange(2) /\ OperationOf(2) = "multiply"
    /\ FieldOf(RamAt(global_state, 2), "executionTime") = Time(1)
    /\ At(global_state, STAB) = Num(1125)

----------------------------------------------------------------------------
(* C37: a trigger fires again in every step *)

\* the active wars that satisfy the conflict predicate in the current document
WarsNow ==
    IF At(global_state, <<"conflicts", "activeWars">>).t = "list"
    THEN SelectSeq(At(global_state, <<"conflicts", "activeWars">>).v, WarTriggers)
    ELSE <<>>

\* C37: the Condition Evaluator keeps no record of the triggers that have fired and never
\* changes the triggering record: in every step, whatever the log already holds, it queues
\* one Global Event with a new eventId for each war and each nation that satisfies its
\* predicate, and the step merges all of them, so while the record is unchanged
\* globalEvents grows by one event per such record per step
C37_FiresEveryStep ==
    [][ /\ (pc = "evaluate" /\ pc' # "crashed") =>
              /\ global_state' = global_state
              /\ IsPrefix(pending_events, pending_events')
              /\ Len(Queued) = Len(WarsNow) + Cardinality(TriggeringNations)
              /\ \A n \in 1..Len(Queued) :
                    /\ DGet(Queued[n], "eventId") \notin EventIds(GlobalEvents) \cup EventIds(pending_events)
                    /\ \A m \in 1..Len(Queued) : DGet(Queued[m], "eventId") = DGet(Queued[n], "eventId") => m = n
        /\ pc = "override" => pending_events' = pending_events
        /\ pc = "merge" => GlobalEvents' = GlobalEvents \o pending_events
      ]_vars

\* C37 witness: after two steps on the document with the war the war is as it was and the
\* log holds two Conflict events made from it, with different eventIds
C37_Witness ==
    /\ pc = "idle"
    /\ calls = 2
    /\ WarsNow = <<War>>
    /\ Len(GlobalEvents) = 2
    /\ \A n \in 1..2 : /\ DGet(GlobalEvents[n], "parentEventId") = DGet(War, "eventId")
                       /\ IsStr(DGet(GlobalEvents[n], "eventType"), "Conflict")
    /\ DGet(GlobalEvents[1], "eventId") # DGet(GlobalEvents[2], "eventId")
    /\ At(GlobalEvents[1], <<"eventData", "startDate">>) = Time(0)
    /\ At(GlobalEvents[2], <<"eventData", "startDate">>) = Time(StepDays)

----------------------------------------------------------------------------
(* generate_json_object: one generation request and its retries *)

\* line 117: the attempts of one request
max_retries == 5

\* What model.generate_content may do in one call: answer with a text (a sequence of
\* characters, one string each, "backtick" for the fence character; <<"None">> stands for
\* a response whose text is None), raise
\* ResourceExhausted (whose metadata attribute is absent, None, or a dict), or raise
\* another exception.
ModelResponses ==
    LET text(chars) == [kind |-> "text", text |-> chars, metadata |-> Absent]
        rate(md) == [kind |-> "rate limit", text |-> <<>>, metadata |-> md]
        retryInfo(seconds) == Dict([retryInfo |-> Dict([retryDelay |-> Dict([seconds |-> seconds])])])
    IN  { text(<<"backtick", "backtick", "backtick", "j", "s", "o", "n", "\n", "{", "}", "\n", "backtick", "backtick", "backtick">>),
          text(<<"backtick", "backtick", "backtick", "j", "s", "o", "n", "\n", "{", "\n", "backtick", "backtick", "backtick">>),
          text(<<"1", "2", "3", "4", "5", "6", "7", "8", "9", "0", "1", "2">>),
          text(<<"{", "\"", "a", "\"", ":", " ", "n", "u", "l", "l", "}">>),
          text(<<" ", "{", "}", "\n">>),
          text(<<"n", "o", "p", "e">>),
          text(<<>>),
          text(<<"None">>),
          rate(Absent), rate(Null), rate(retryInfo(Str("30"))), rate(retryInfo(Num(30))),
          [kind |-> "error", text |-> <<>>, metadata |-> Absent] }

\* json.loads on the texts of the model, after raw_json_text has been cut out (lines
\* 124-128): surrounding whitespace is skipped; Absent stands for JSONDecodeError
json_loads(response_text) ==
    LET strip(chars) ==
            LET inner == {i \in 1..Len(chars) : chars[i] \notin {" ", "\n"}}
            IN  IF inner = {} THEN <<>>
                ELSE SubSeq(chars, CHOOSE i \in inner : \A j \in inner : i <= j,
                                   CHOOSE i \in inner : \A j \in inner : j <= i)
        raw_json_text ==
            IF Len(response_text) > 10
            THEN SubSeq(strip(response_text), 8, Len(strip(response_text)) - 3)
            ELSE strip(response_text)
        parsed(chars) ==
            CASE chars = <<"{", "}">> -> EmptyDict
              [] chars = <<"8", "9">> -> Num(89)
              [] OTHER -> Absent
    IN  parsed(strip(raw_json_text))

\* One pass of the for loop (lines 119-167) on one response of the model, attempt counted
\* from 0: "return" with the parsed value, "retry" with the message printed, or "raise"
\* when the except clause itself raises (lines 152-156 on the metadata of the error).
generate_attempt(response, attempt) ==
    LET retryInfo == GetOr(response.metadata, "retryInfo", Absent)
        retryDelay == GetOr(retryInfo, "retryDelay", Absent)
        handler_raises ==
            /\ HasKey(response.metadata, "retryInfo")
            /\ \/ retryInfo.t \notin {"dict", "list", "str"}
               \/ /\ HasKey(retryInfo, "retryDelay")
                  /\ \/ retryDelay.t # "dict"
                     \/ GetOr(retryDelay, "seconds", Str("0")).t # "str"
        failed(message) == [does |-> "retry", value |-> Null, message |-> message]
    IN  CASE response.kind = "rate limit" ->
                IF attempt # max_retries - 1 /\ handler_raises
                THEN [does |-> "raise", value |-> Null, message |-> "Rate limit hit"]
                ELSE failed("Rate limit hit")
          [] response.kind = "text" /\ response.text = <<"None">> ->
                failed("Error during AI generation or parsing")
          [] response.kind = "text" /\ json_loads(response.text) = Absent ->
                failed("Error: AI did not return valid JSON object")
          [] response.kind = "text" ->
                [does |-> "return", value |-> json_loads(response.text), message |-> ""]
          [] OTHER -> failed("Error during AI generation or parsing")

\* generate_json_object has been called; in this specification pending_events holds the
\* messages the function has printed and auto_left the passes of the loop still to run
GenerateInit ==
    /\ global_state = DefaultDocument
    /\ pending_events = <<>>
    /\ time_step = 0
    /\ pc = "generate"
    /\ user_input = ""
    /\ indices_to_process = <<>>
    /\ current_time = 0
    /\ disk = Null
    /\ next_id = 1
    /\ auto_left = max_retries
    /\ tick_start = 0
    /\ calls = 0
    /\ event_request = <<>>

\* lines 119-167: one pass of the loop, with one call of the model
GenerateAttempt ==
    /\ pc = "generate"
    /\ auto_left > 0
    /\ \E response \in ModelResponses :
          \E r \in {generate_attempt(response, max_retries - auto_left)} :
              /\ calls' = calls + 1
              /\ auto_left' = auto_left - 1
              /\ pc' = CASE r.does = "return" -> "returned"
                         [] r.does = "raise" -> "crashed"
                         [] OTHER -> "generate"
              /\ event_request' = IF r.does = "return" THEN <<r.value>> ELSE event_request
              /\ pending_events' = IF r.does = "return" THEN pending_events
                                   ELSE Append(pending_events, r.message)
    /\ UNCHANGED <<global_state, time_step, user_input, indices_to_process, current_time, disk,
                   next_id, tick_start>>

\* lines 169-171: the loop is over without a return
GenerateGiveUp ==
    /\ pc = "generate"
    /\ auto_left = 0
    /\ pc' = "returned"
    /\ event_request' = <<Null>>
    /\ pending_events' = Append(pending_events, "Failed to generate valid JSON object after all retries.")
    /\ UNCHANGED <<global_state, time_step, user_input, indices_to_process, current_time, disk,
                   next_id, auto_left, tick_start, calls>>

SpecGenerate == GenerateInit /\ [][GenerateAttempt \/ GenerateGiveUp]_vars

----------------------------------------------------------------------------
(* C38: a generation request ends within five model calls and never raises *)

\* the request has given up: five failed attempts and the closing message
GaveUp == Len(pending_events) = max_retries + 1

\* C38: a request made through generate_json_object makes at most 5 model calls; it
\* returns the first result that parses and calls the model no more, returns None once
\* five attempts have failed for whatever mix of reasons, and never raises to its caller
C38_BoundedAndTotal ==
    /\ [](calls <= 5 /\ pc # "crashed")
    /\ [][ pc = "generate" =>
              /\ pc' = "returned" =>
                    \/ calls' = calls + 1 /\ event_request' # <<Null>> /\ pending_events' = pending_events
                    \/ calls' = calls /\ calls = 5 /\ event_request' = <<Null>> /\ GaveUp'
              /\ pc' = "generate" => calls' = calls + 1 /\ Len(pending_events') = calls'
      ]_vars

----------------------------------------------------------------------------
(* TimeEngine.run_auto_steps called with both of its parameters *)

\* the days_per_step a caller may pass: the default and a shorter step
AutoDays == {10, StepDays}

\* run_auto_steps(steps, days_per_step), lines 187-199 (main_loop passes steps only); in
\* this specification event_request holds the days_per_step of the running call
RunAutoSteps ==
    /\ pc = "idle"
    /\ \E steps \in 1..MaxAuto, days_per_step \in AutoDays :
          /\ calls + steps <= MaxCalls
          /\ auto_left' = steps
          /\ calls' = calls + steps
          /\ event_request' = <<days_per_step>>
    /\ user_input' = ""
    /\ pc' = TickOrder[1]
    /\ tick_start' = time_step
    /\ UNCHANGED <<global_state, pending_events, time_step, disk, next_id, execVars>>

SpecAuto ==
    Init /\ [][ RunAutoSteps \/ Evaluate \/ Override \/ Merge \/ Synthesize \/ Advance \/ Clear
                \/ Execute \/ ExecIteration \/ ExecuteDone \/ Save ]_vars

----------------------------------------------------------------------------
(* C39: the step increment *)

\* C39: each simulation step advances current_date by exactly the step increment, 30 days
\* by default, and a step of run_auto_steps(steps, days_per_step) moves the simulated date
\* forward by days_per_step days, so that the call moves it by steps * days_per_step days
C39_StepIncrement ==
    [][ pc = "advance" =>
           /\ global_state'.v["current_date"] = Time(global_state.v["current_date"].v + event_request[1])
           /\ time_step' = time_step + event_request[1]
           /\ event_request[1] = StepDays => time_step' = time_step + 30
      ]_vars

====
